---- MODULE Spec2Model ----
(***************************************************************************)
(* wickedbased: resource aggregates (Service, Job, Worker) with their      *)
(* environment-variable list, their JSON projection, and the               *)
(* serialization pipeline (removeEmpty, transformKeys, toYAML).            *)
(*                                                                         *)
(* JavaScript strings are modelled as tuples of one-character strings, so  *)
(* that camelToSnake works on the characters of a key.                     *)
(***************************************************************************)
EXTENDS Naturals, Integers, Sequences, FiniteSets, TLC

VARIABLES
  self,    \* the aggregate: its readonly fields, envs being a heap reference
  heap,    \* the arrays that are held by reference: of EnvironmentVariable
           \* instances, of internal ports, of VolumeMount instances
  held,    \* the arrays the caller holds: the one it passed as config.envs
           \* (init, 0 for none) and those listEnvs returned to it (snaps)
  nmut,    \* how many times the caller has mutated an array it holds
  calls,   \* the toYAML calls suspended in Pulumi Output resolution
  pulumi,  \* whether @pulumi/pulumi can be imported; unknown until first tried
  input,   \* the value handed to a transformer function
  last     \* the last call made and its outcome

vars == <<self, heap, held, nmut, calls, pulumi, input, last>>

(***************************************************************************)
(* Bounds of the model.                                                    *)
(***************************************************************************)
\* generated input trees have at most this many nodes
MaxNodes == 3
\* the env list passed to a constructor has at most this many entries
MaxInitialEnvs == 2
\* the caller keeps at most this many arrays returned by listEnvs
MaxSnapshots == 1
\* the caller mutates the arrays it holds at most this many times
MaxMutations == 1
\* at most this many toYAML calls are suspended at a time
MaxCalls == 1
\* at most this many toYAML calls overlap where overlapping calls are studied
MaxOverlap == 2

(***************************************************************************)
(* JavaScript values.  An object is the sequence of its own enumerable     *)
(* properties <<key, value>> in insertion order (no key of the model is    *)
(* integer-like, so insertion order is the enumeration order).             *)
(***************************************************************************)
Undefined == [t |-> "undefined"]
Null == [t |-> "null"]
Num(n) == [t |-> "number", n |-> n]
\* a number with a fractional part: n + 1/2 (1.5 is NumAndHalf(1))
NumAndHalf(n) == [t |-> "number", n |-> n, half |-> TRUE]
Bool(b) == [t |-> "boolean", b |-> b]
Str(s) == [t |-> "string", s |-> s]
Arr(a) == [t |-> "array", a |-> a]
Obj(o) == [t |-> "object", o |-> o]

\* result[key] = value on an ordinary object: an existing key keeps its
\* position and takes the new value, a new key is appended
SetProp(o, key, value) ==
  IF \E i \in 1..Len(o) : o[i][1] = key
    THEN [i \in 1..Len(o) |-> IF o[i][1] = key THEN <<key, value>> ELSE o[i]]
    ELSE Append(o, <<key, value>>)

Keys(o) == [i \in 1..Len(o) |-> o[i][1]]

HasKey(o, key) == \E i \in 1..Len(o) : o[i][1] = key

Get(o, key) ==
  IF HasKey(o, key)
    THEN o[CHOOSE i \in 1..Len(o) : o[i][1] = key][2]
    ELSE Undefined

(***************************************************************************)
(* transformers.ts                                                         *)
(***************************************************************************)
UpperCase == <<"A","B","C","D","E","F","G","H","I","J","K","L","M",
               "N","O","P","Q","R","S","T","U","V","W","X","Y","Z">>
LowerCase == <<"a","b","c","d","e","f","g","h","i","j","k","l","m",
               "n","o","p","q","r","s","t","u","v","w","x","y","z">>

\* /[A-Z]/ matches the character
IsUpper(c) == \E i \in 1..26 : UpperCase[i] = c

\* letter.toLowerCase() of a character matched by /[A-Z]/
toLowerCase(c) == LowerCase[CHOOSE i \in 1..26 : UpperCase[i] = c]

\* str.replace without the g flag: only the first capital is replaced
camelToSnakeFirstOnly(str) ==
  IF \E i \in 1..Len(str) : IsUpper(str[i])
    THEN LET i == CHOOSE i \in 1..Len(str) :
                    IsUpper(str[i]) /\ \A j \in 1..(i - 1) : ~IsUpper(str[j])
         IN SubSeq(str, 1, i - 1) \o <<"_", toLowerCase(str[i])>>
              \o SubSeq(str, i + 1, Len(str))
    ELSE str

RECURSIVE camelToSnake(_)
camelToSnake(str) ==
  IF Len(str) = 0 THEN <<>>
  ELSE (IF IsUpper(Head(str)) THEN <<"_", toLowerCase(Head(str))>> ELSE <<Head(str)>>)
       \o camelToSnake(Tail(str))

RECURSIVE transformEntries(_, _, _)
RECURSIVE transformKeys(_)
\* the for-loop over Object.entries(obj), from entry i on, building result
transformEntries(o, i, result) ==
  IF i > Len(o) THEN result
  ELSE transformEntries(o, i + 1,
         SetProp(result, camelToSnake(o[i][1]), transformKeys(o[i][2])))

transformKeys(obj) ==
  IF obj.t \in {"null", "undefined"} THEN obj
  ELSE IF obj.t = "array" THEN Arr([i \in 1..Len(obj.a) |-> transformKeys(obj.a[i])])
  ELSE IF obj.t = "object" THEN Obj(transformEntries(obj.o, 1, <<>>))
  ELSE obj

\* a filter on truthiness instead of on undefined/null: drops 0, false and ""
DefinedTruthy(v) ==
  /\ v.t \notin {"undefined", "null"}
  /\ v # Num(0) /\ v # Bool(FALSE) /\ v # Str(<<>>)

\* .filter(item => item !== undefined && item !== null)
Defined(v) == v.t \notin {"undefined", "null"}

RECURSIVE removeEmptyEntries(_, _, _)
RECURSIVE removeEmpty(_)
\* the for-loop over Object.entries(obj), from entry i on, building result
removeEmptyEntries(o, i, result) ==
  IF i > Len(o) THEN result
  ELSE LET filteredValue == removeEmpty(o[i][2])
       IN removeEmptyEntries(o, i + 1,
            IF Defined(filteredValue) THEN SetProp(result, o[i][1], filteredValue)
                                      ELSE result)

\* pruning of the top level only: the values inside are kept as they are
removeEmptyShallow(obj) ==
  IF obj.t \in {"null", "undefined"} THEN Undefined
  ELSE IF obj.t = "array" THEN
    LET filtered == SelectSeq(obj.a, Defined)
    IN IF Len(filtered) > 0 THEN Arr(filtered) ELSE Undefined
  ELSE IF obj.t = "object" THEN
    LET result == SelectSeq(obj.o, LAMBDA e : Defined(e[2]))
    IN IF Len(result) > 0 THEN Obj(result) ELSE Undefined
  ELSE obj

removeEmpty(obj) ==
  IF obj.t \in {"null", "undefined"} THEN Undefined
  ELSE IF obj.t = "array" THEN
    LET filtered == SelectSeq([i \in 1..Len(obj.a) |-> removeEmpty(obj.a[i])], Defined)
    IN IF Len(filtered) > 0 THEN Arr(filtered) ELSE Undefined
  ELSE IF obj.t = "object" THEN
    LET result == removeEmptyEntries(obj.o, 1, <<>>)
    IN IF Len(result) > 0 THEN Obj(result) ELSE Undefined
  ELSE obj

(***************************************************************************)
(* Configuration entities.  An instance is the record of its readonly      *)
(* fields, holding JavaScript values; `cls` names its class.               *)
(***************************************************************************)
\* a Pulumi-Output-like value (the MockOutput of the unit tests): own
\* properties val and isSecret, `then` on the prototype; id is its identity
MockOutput(id, val) ==
  [t |-> "object",
   o |-> << <<<<"v", "a", "l">>, Str(val)>>, <<<<"i", "s", "S", "e", "c", "r", "e", "t">>, Bool(FALSE)>> >>,
   p |-> {<<"t", "h", "e", "n">>},
   id |-> id]

\* the EnvironmentVariable instances of the model, by identity; the first
\* two share a key, the last holds a Pulumi-Output-like value
Envs ==
  << [cls |-> "EnvironmentVariable", key |-> <<"P", "O", "R", "T">>, value |-> Str(<<"3", "0", "0", "0">>),
      type |-> Str(<<"G", "E", "N", "E", "R", "A", "L">>), scope |-> Str(<<"R", "U", "N", "_", "T", "I", "M", "E">>)],
     [cls |-> "EnvironmentVariable", key |-> <<"P", "O", "R", "T">>, value |-> Str(<<"8", "0", "8", "0">>),
      type |-> Str(<<"G", "E", "N", "E", "R", "A", "L">>), scope |-> Str(<<"B", "U", "I", "L", "D", "_", "T", "I", "M", "E">>)],
     [cls |-> "EnvironmentVariable", key |-> <<"D", "A", "T", "A", "B", "A", "S", "E", "_", "U", "R", "L">>,
      value |-> MockOutput(1, <<"p", "u", "l", "u", "m", "i", "-", "v", "a", "l", "u", "e">>),
      type |-> Str(<<"S", "E", "C", "R", "E", "T">>), scope |-> Str(<<"R", "U", "N", "_", "T", "I", "M", "E">>)] >>

EnvIds == 1..Len(Envs)

\* EnvironmentVariable.toJSON of instance e
EnvironmentVariableToJSON(e) ==
  Obj(<< <<<<"k", "e", "y">>, Str(Envs[e].key)>>,
         <<<<"v", "a", "l", "u", "e">>, Envs[e].value>>,
         <<<<"t", "y", "p", "e">>, Envs[e].type>>,
         <<<<"s", "c", "o", "p", "e">>, Envs[e].scope>> >>)

\* EnvironmentVariable.toJSON of an instance that is not one of Envs
EnvToJSON(env) ==
  Obj(<< <<<<"k", "e", "y">>, Str(env.key)>>,
         <<<<"v", "a", "l", "u", "e">>, env.value>>,
         <<<<"t", "y", "p", "e">>, env.type>>,
         <<<<"s", "c", "o", "p", "e">>, env.scope>> >>)

HealthCheckToJSON(h) ==
  Obj(<< <<<<"h", "t", "t", "p", "P", "a", "t", "h">>, h.httpPath>>,
         <<<<"p", "o", "r", "t">>, h.port>>,
         <<<<"i", "n", "i", "t", "i", "a", "l", "D", "e", "l", "a", "y", "S", "e", "c", "o", "n", "d", "s">>, h.initialDelaySeconds>>,
         <<<<"p", "e", "r", "i", "o", "d", "S", "e", "c", "o", "n", "d", "s">>, h.periodSeconds>>,
         <<<<"t", "i", "m", "e", "o", "u", "t", "S", "e", "c", "o", "n", "d", "s">>, h.timeoutSeconds>>,
         <<<<"s", "u", "c", "c", "e", "s", "s", "T", "h", "r", "e", "s", "h", "o", "l", "d">>, h.successThreshold>>,
         <<<<"f", "a", "i", "l", "u", "r", "e", "T", "h", "r", "e", "s", "h", "o", "l", "d">>, h.failureThreshold>> >>)

\* if (this.registry): undefined and "" are falsy
Truthy(v) == v.t # "undefined" /\ v # Str(<<>>)

DockerImageToJSON(d) ==
  LET json == << <<<<"r", "e", "g", "i", "s", "t", "r", "y", "T", "y", "p", "e">>, d.registryType>>,
                 <<<<"r", "e", "p", "o", "s", "i", "t", "o", "r", "y">>, d.repository>>,
                 <<<<"t", "a", "g">>, d.tag>> >>
  IN Obj(IF Truthy(d.registry) THEN SetProp(json, <<"r", "e", "g", "i", "s", "t", "r", "y">>, d.registry) ELSE json)

GitHubSourceToJSON(g) ==
  Obj(<< <<<<"r", "e", "p", "o">>, g.repo>>,
         <<<<"b", "r", "a", "n", "c", "h">>, g.branch>>,
         <<<<"s", "o", "u", "r", "c", "e", "D", "i", "r">>, g.sourceDir>>,
         <<<<"d", "o", "c", "k", "e", "r", "f", "i", "l", "e", "P", "a", "t", "h">>, g.dockerfilePath>>,
         <<<<"d", "e", "p", "l", "o", "y", "O", "n", "P", "u", "s", "h">>, g.deployOnPush>> >>)

VolumeMountToJSON(v) ==
  Obj(<< <<<<"n", "a", "m", "e">>, v.name>>,
         <<<<"m", "o", "u", "n", "t", "P", "a", "t", "h">>, v.mountPath>>,
         <<<<"s", "i", "z", "e">>, v.size>> >>)

\* this.source.toJSON(): dispatch on the class of the source
SourceToJSON(src) ==
  IF src.cls = "DockerImage" THEN DockerImageToJSON(src) ELSE GitHubSourceToJSON(src)

\* new HealthCheck({httpPath: '/', port: 3000}): the defaults filled in
SampleHealthCheck ==
  [cls |-> "HealthCheck", httpPath |-> Str(<<"/">>), port |-> Num(3000),
   initialDelaySeconds |-> Num(0), periodSeconds |-> Num(10), timeoutSeconds |-> Num(1),
   successThreshold |-> Num(1), failureThreshold |-> Num(3)]

\* new DockerImage({registryType: 'DOCKER_HUB', repository: 'postgrest', tag: 'v14.2'})
SampleDockerImage ==
  [cls |-> "DockerImage", registryType |-> Str(<<"D", "O", "C", "K", "E", "R", "_", "H", "U", "B">>), registry |-> Undefined,
   repository |-> Str(<<"p", "o", "s", "t", "g", "r", "e", "s", "t">>), tag |-> Str(<<"v", "1", "4", ".", "2">>)]

SampleDocrDockerImage ==
  [cls |-> "DockerImage", registryType |-> Str(<<"D", "O", "C", "R">>),
   registry |-> Str(<<"p", "o", "s", "t", "g", "r", "e", "s", "t", "-", "r", "e", "g", "i", "s", "t", "r", "y">>),
   repository |-> Str(<<"p", "o", "s", "t", "g", "r", "e", "s", "t">>), tag |-> Str(<<"v", "1", "4", ".", "2">>)]

SampleGitHubSource ==
  [cls |-> "GitHubSource", repo |-> Str(<<"s", "u", "p", "a", "b", "a", "s", "e", "/", "p", "o", "s", "t", "g", "r", "e", "s", "t">>), branch |-> Str(<<"v", "1", "4", ".", "2">>),
   sourceDir |-> Str(<<"/">>), dockerfilePath |-> Str(<<"D", "o", "c", "k", "e", "r", "f", "i", "l", "e">>),
   deployOnPush |-> Bool(FALSE)]

\* new VolumeMount({name: 'data', mountPath: '/data'})
SampleVolumeMount ==
  [cls |-> "VolumeMount", name |-> Str(<<"d", "a", "t", "a">>), mountPath |-> Str(<<"/", "d", "a", "t", "a">>),
   size |-> Str(<<"1", "G", "B">>)]

(***************************************************************************)
(* Resource aggregates.  An aggregate is the record of its readonly        *)
(* fields; a field that was not given holds Undefined.  Its envs field is  *)
(* a reference into the heap of arrays; internalPorts and volumes are      *)
(* Undefined or an array, of numbers and of VolumeMount instances.         *)
(***************************************************************************)
\* this.envs.findIndex(e => e.key === key): 0-based, -1 when there is none
findIndex(list, key) ==
  IF \E i \in 1..Len(list) : Envs[list[i]].key = key
    THEN (CHOOSE i \in 1..Len(list) :
            /\ Envs[list[i]].key = key
            /\ \A j \in 1..(i - 1) : Envs[list[j]].key # key) - 1
    ELSE -1

\* list.splice(index): without the count, all from index on is removed
spliceToEnd(list, index) == SubSeq(list, 1, index)

\* list.splice(index, 1) with a 0-based index
splice(list, index) == SubSeq(list, 1, index) \o SubSeq(list, index + 2, Len(list))

\* new z.ZodError([{code: custom, path: ['key'], message}])
DuplicateKeyError(key) ==
  [name |-> "ZodError",
   issues |-> << [code |-> "custom", path |-> <<"key">>,
                  message |-> <<"E", "n", "v", "i", "r", "o", "n", "m", "e", "n", "t", " ", "v", "a", "r", "i", "a", "b", "l", "e", " ", "w", "i", "t", "h", " ", "k", "e", "y", " ">> \o <<"\"">> \o key
                              \o <<"\"">> \o <<" ", "a", "l", "r", "e", "a", "d", "y", " ", "e", "x", "i", "s", "t", "s">>] >>]

\* addEnv on the array at reference r of heap h: the heap afterwards and
\* what was thrown (NoError when the call returned)
NoError == [name |-> "none"]

\* the push done before the check for an existing key
addEnvPushFirst(h, r, e) ==
  IF findIndex(h[r], Envs[e].key) # -1
    THEN [heap |-> [h EXCEPT ![r] = Append(@, e)],
          threw |-> DuplicateKeyError(Envs[e].key)]
    ELSE [heap |-> [h EXCEPT ![r] = Append(@, e)], threw |-> NoError]

\* unshift in place of push
addEnvUnshift(h, r, e) ==
  IF findIndex(h[r], Envs[e].key) # -1
    THEN [heap |-> h, threw |-> DuplicateKeyError(Envs[e].key)]
    ELSE [heap |-> [h EXCEPT ![r] = <<e>> \o @], threw |-> NoError]

\* addEnv without the check for an existing key
addEnvNoCheck(h, r, e) == [heap |-> [h EXCEPT ![r] = Append(@, e)], threw |-> NoError]

addEnv(h, r, e) ==
  LET existingIndex == findIndex(h[r], Envs[e].key)
  IN IF existingIndex # -1
       THEN [heap |-> h, threw |-> DuplicateKeyError(Envs[e].key)]
       ELSE [heap |-> [h EXCEPT ![r] = Append(@, e)], threw |-> NoError]

removeEnv(h, r, key) ==
  LET index == findIndex(h[r], key)
  IN IF index # -1
       THEN [heap |-> [h EXCEPT ![r] = splice(@, index)], res |-> TRUE]
       ELSE [heap |-> h, res |-> FALSE]

\* this.envs.find(e => e.key === key): the instance, or 0 for undefined
getEnv(h, r, key) ==
  IF findIndex(h[r], key) # -1 THEN h[r][findIndex(h[r], key) + 1] ELSE 0

\* listEnvs without the copy: hands out the internal array itself
listEnvsNoCopy(h, r) == [heap |-> h, res |-> r]

\* [...this.envs]: a new array on the heap, and its reference
listEnvs(h, r) == [heap |-> Append(h, h[r]), res |-> Len(h) + 1]

\* this.envs.map(env => env.toJSON())
EnvsToJSON(list) == Arr([i \in 1..Len(list) |-> EnvironmentVariableToJSON(list[i])])

VolumesToJSON(volumes) == Arr([i \in 1..Len(volumes) |-> VolumeMountToJSON(volumes[i])])

\* if (field) in place of if (field !== undefined): "" and 0 are left out
SetIfTruthy(json, cond, key, value) ==
  IF cond /\ value # Str(<<>>) /\ value # Num(0) THEN SetProp(json, key, value) ELSE json

\* if (field !== undefined) json[key] = value
SetIfDefined(json, cond, key, value) == IF cond THEN SetProp(json, key, value) ELSE json

\* The array a field holds.  An array that the caller of the constructor
\* holds too (this.internalPorts = config.internalPorts, this.volumes =
\* config.volumes) is a reference [t |-> "array", r |-> k] to the array k of
\* heap h; an array that nothing else refers to is written by value.
ArrayOf(v, h) == IF v.t = "array" /\ "r" \in DOMAIN v THEN Arr(h[v.r]) ELSE v

ServiceToJSON(this, h) ==
  LET j0 == << <<<<"n", "a", "m", "e">>, this.name>>,
               <<<<"i", "n", "s", "t", "a", "n", "c", "e", "S", "i", "z", "e", "S", "l", "u", "g">>, this.instanceSizeSlug>>,
               <<<<"i", "n", "s", "t", "a", "n", "c", "e", "C", "o", "u", "n", "t">>, this.instanceCount>>,
               <<<<"e", "n", "v", "s">>, EnvsToJSON(h[this.envs])>> >>
      j1 == SetIfDefined(j0, this.httpPort # Undefined, <<"h", "t", "t", "p", "P", "o", "r", "t">>, this.httpPort)
      j2 == SetIfDefined(j1, this.internalPorts # Undefined,
                         <<"i", "n", "t", "e", "r", "n", "a", "l", "P", "o", "r", "t", "s">>, ArrayOf(this.internalPorts, h))
      j3 == IF this.healthCheck # Undefined
              THEN SetProp(j2, <<"h", "e", "a", "l", "t", "h", "C", "h", "e", "c", "k">>, HealthCheckToJSON(this.healthCheck))
              ELSE j2
      j4 == SetIfDefined(j3, this.runCommand # Undefined, <<"r", "u", "n", "C", "o", "m", "m", "a", "n", "d">>, this.runCommand)
      j5 == IF this.volumes # Undefined /\ Len(ArrayOf(this.volumes, h).a) > 0
              THEN SetProp(j4, <<"v", "o", "l", "u", "m", "e", "s">>, VolumesToJSON(ArrayOf(this.volumes, h).a))
              ELSE j4
      j6 == IF this.source # Undefined
              THEN SetProp(j5, <<"s", "o", "u", "r", "c", "e">>, SourceToJSON(this.source))
              ELSE j5
  IN Obj(j6)

WorkerToJSON(this, h) ==
  LET j0 == << <<<<"n", "a", "m", "e">>, this.name>>,
               <<<<"i", "n", "s", "t", "a", "n", "c", "e", "S", "i", "z", "e", "S", "l", "u", "g">>, this.instanceSizeSlug>>,
               <<<<"i", "n", "s", "t", "a", "n", "c", "e", "C", "o", "u", "n", "t">>, this.instanceCount>>,
               <<<<"e", "n", "v", "s">>, EnvsToJSON(h[this.envs])>> >>
      j1 == SetIfDefined(j0, this.internalPorts # Undefined,
                         <<"i", "n", "t", "e", "r", "n", "a", "l", "P", "o", "r", "t", "s">>, ArrayOf(this.internalPorts, h))
      j2 == SetIfDefined(j1, this.runCommand # Undefined, <<"r", "u", "n", "C", "o", "m", "m", "a", "n", "d">>, this.runCommand)
      j3 == IF this.volumes # Undefined /\ Len(ArrayOf(this.volumes, h).a) > 0
              THEN SetProp(j2, <<"v", "o", "l", "u", "m", "e", "s">>, VolumesToJSON(ArrayOf(this.volumes, h).a))
              ELSE j2
      j4 == IF this.source # Undefined
              THEN SetProp(j3, <<"s", "o", "u", "r", "c", "e">>, SourceToJSON(this.source))
              ELSE j3
  IN Obj(j4)

JobToJSON(this, h) ==
  LET j0 == << <<<<"n", "a", "m", "e">>, this.name>>,
               <<<<"k", "i", "n", "d">>, this.kind>>,
               <<<<"r", "u", "n", "C", "o", "m", "m", "a", "n", "d">>, this.runCommand>>,
               <<<<"e", "n", "v", "s">>, EnvsToJSON(h[this.envs])>> >>
      j1 == SetIfDefined(j0, this.instanceSizeSlug # Undefined,
                         <<"i", "n", "s", "t", "a", "n", "c", "e", "S", "i", "z", "e", "S", "l", "u", "g">>, this.instanceSizeSlug)
      j2 == SetIfDefined(j1, this.instanceCount # Undefined,
                         <<"i", "n", "s", "t", "a", "n", "c", "e", "C", "o", "u", "n", "t">>, this.instanceCount)
      j3 == IF this.source # Undefined
              THEN SetProp(j2, <<"s", "o", "u", "r", "c", "e">>, SourceToJSON(this.source))
              ELSE j2
  IN Obj(j3)

\* this.toJSON(): dispatch on the class of the aggregate
toJSON(this, h) ==
  IF this.cls = "Service" THEN ServiceToJSON(this, h)
  ELSE IF this.cls = "Job" THEN JobToJSON(this, h)
  ELSE WorkerToJSON(this, h)

\* a constructor that keeps the caller's array: this.envs = config.envs || []
NewResourceNoCopy(config, h) ==
  IF config.envs # 0 THEN [heap |-> h, this |-> config]
  ELSE [heap |-> Append(h, <<>>), this |-> [config EXCEPT !.envs = Len(h) + 1]]

\* a constructor that keeps only the first entry of each key
NewResourceDistinctKeys(config, h) ==
  LET given == IF config.envs # 0 THEN h[config.envs] ELSE <<>>
      first == SelectSeq([i \in 1..Len(given) |-> <<i, given[i]>>],
                         LAMBDA p : findIndex(given, Envs[p[2]].key) = p[1] - 1)
  IN [heap |-> Append(h, [i \in 1..Len(first) |-> first[i][2]]),
      this |-> [config EXCEPT !.envs = Len(h) + 1]]

\* the AppPlatformResource constructor on a valid config, whose envs is the
\* reference of the caller's array or 0 when none was given:
\* this.envs = config.envs?.slice() || []
NewResource(config, h) ==
  [heap |-> Append(h, IF config.envs # 0 THEN h[config.envs] ELSE <<>>),
   this |-> [config EXCEPT !.envs = Len(h) + 1]]

(***************************************************************************)
(* Validation: the zod schemas of schemas.ts and the parses of the         *)
(* constructors.  A schema applied to a value gives the sequence of its    *)
(* issues, in the order zod reports them; a wrong type or enum value       *)
(* aborts the parse of the enclosing object, a failed check does not.      *)
(***************************************************************************)
Issue(code, path, message) == [code |-> code, path |-> <<path>>, message |-> message]

\* new ZodError(issues)
ZodError(issues) == [name |-> "ZodError", issues |-> issues]

\* the name zod gives to the type of a value
TypeName(v) ==
  CASE v.t = "undefined" -> <<"u", "n", "d", "e", "f", "i", "n", "e", "d">>
    [] v.t = "null" -> <<"n", "u", "l", "l">>
    [] v.t = "number" -> <<"n", "u", "m", "b", "e", "r">>
    [] v.t = "boolean" -> <<"b", "o", "o", "l", "e", "a", "n">>
    [] v.t = "string" -> <<"s", "t", "r", "i", "n", "g">>
    [] v.t = "array" -> <<"a", "r", "r", "a", "y">>
    [] OTHER -> <<"o", "b", "j", "e", "c", "t">>

\* the issue of a value of the wrong type
InvalidType(path, expected, v) ==
  Issue("invalid_type", path,
        IF v = Undefined THEN <<"R", "e", "q", "u", "i", "r", "e", "d">>
        ELSE <<"E", "x", "p", "e", "c", "t", "e", "d", " ">> \o expected \o <<",", " ", "r", "e", "c", "e", "i", "v", "e", "d", " ">> \o TypeName(v))

\* The characters String.prototype.trim removes: WhiteSpace and
\* LineTerminator of ECMAScript, that is TAB, LF, VT, FF, CR, SPACE, U+00A0,
\* U+1680, U+2000..U+200A, U+2028, U+2029, U+202F, U+205F, U+3000 and
\* U+FEFF.  A character is an element of the tuple that models a string;
\* the characters a string literal of this module cannot hold are written
\* as their code point, "U+2028" being the one character U+2028.
Whitespace ==
  {" ", "\t", "\n", "\r", "\f", "", " ", " ", "﻿",
   "U+2000", "U+2001", "U+2002", "U+2003", "U+2004", "U+2005",
   "U+2006", "U+2007", "U+2008", "U+2009", "U+200A", "U+2028",
   "U+2029", "U+202F", "U+205F", "U+3000"}

\* val.trim().length > 0
trimNonEmpty(s) == \E i \in 1..Len(s) : s[i] \notin Whitespace

\* z.string()
zString(v, path) == IF v.t = "string" THEN <<>> ELSE <<InvalidType(path, <<"s", "t", "r", "i", "n", "g">>, v)>>

\* the refinement evaluated without the trim: "  " passes
nonEmptyStringUntrimmed(v, path, message) ==
  IF v.t # "string" THEN <<InvalidType(path, <<"s", "t", "r", "i", "n", "g">>, v)>>
  ELSE IF Len(v.s) > 0 THEN <<>>
  ELSE <<Issue("custom", path, message)>>

\* z.string().refine(val => val.trim().length > 0, message)
nonEmptyString(v, path, message) ==
  IF v.t # "string" THEN <<InvalidType(path, <<"s", "t", "r", "i", "n", "g">>, v)>>
  ELSE IF trimNonEmpty(v.s) THEN <<>>
  ELSE <<Issue("custom", path, message)>>

\* z.enum(values); expected is the list of values as zod prints it
zEnum(v, path, values, expected) ==
  IF v.t # "string" THEN <<InvalidType(path, expected, v)>>
  ELSE IF v \in values THEN <<>>
  ELSE <<Issue("invalid_enum_value", path,
               <<"I", "n", "v", "a", "l", "i", "d", " ", "e", "n", "u", "m", " ", "v", "a", "l", "u", "e", ".", " ", "E", "x", "p", "e", "c", "t", "e", "d", " ">> \o expected \o <<",", " ", "r", "e", "c", "e", "i", "v", "e", "d", " ", "'">>
                 \o v.s \o <<"'">>)>>

\* Number.isInteger(v), the check of .int()
isInteger(v) == "half" \notin DOMAIN v

\* z.number().min(min, message), without .int()
zMin(v, path, min, message) ==
  IF v.t # "number" THEN <<InvalidType(path, <<"n", "u", "m", "b", "e", "r">>, v)>>
  ELSE IF v.n < min THEN <<Issue("too_small", path, message)>>
  ELSE <<>>

\* z.number().int().min(min, message): the checks run in the order declared
\* and each adds its issue (n + 1/2 < min exactly when n < min)
zIntMin(v, path, min, message) ==
  IF v.t # "number" THEN <<InvalidType(path, <<"n", "u", "m", "b", "e", "r">>, v)>>
  ELSE (IF isInteger(v) THEN <<>>
        ELSE <<Issue("invalid_type", path, <<"E", "x", "p", "e", "c", "t", "e", "d", " ", "i", "n", "t", "e", "g", "e", "r", ",", " ", "r", "e", "c", "e", "i", "v", "e", "d", " ", "f", "l", "o", "a", "t">>)>>)
       \o (IF v.n < min THEN <<Issue("too_small", path, message)>> ELSE <<>>)

\* z.number().int().min(1).max(65535, message)
zPort(v, path, message) ==
  IF v.t # "number" THEN <<InvalidType(path, <<"n", "u", "m", "b", "e", "r">>, v)>>
  ELSE (IF isInteger(v) THEN <<>>
        ELSE <<Issue("invalid_type", path, <<"E", "x", "p", "e", "c", "t", "e", "d", " ", "i", "n", "t", "e", "g", "e", "r", ",", " ", "r", "e", "c", "e", "i", "v", "e", "d", " ", "f", "l", "o", "a", "t">>)>>)
       \o (IF v.n < 1
             THEN <<Issue("too_small", path, <<"N", "u", "m", "b", "e", "r", " ", "m", "u", "s", "t", " ", "b", "e", " ", "g", "r", "e", "a", "t", "e", "r", " ", "t", "h", "a", "n", " ", "o", "r", " ", "e", "q", "u", "a", "l", " ", "t", "o", " ", "1">>)>>
             ELSE <<>>)
       \o (IF v.n > 65535 \/ (~isInteger(v) /\ v.n = 65535)
             THEN <<Issue("too_big", path, message)>> ELSE <<>>)

\* z.boolean()
zBoolean(v, path) == IF v.t = "boolean" THEN <<>> ELSE <<InvalidType(path, <<"b", "o", "o", "l", "e", "a", "n">>, v)>>

\* schema.optional() and schema.default(d): undefined is not parsed
Optional(v, issues) == IF v = Undefined THEN <<>> ELSE issues

Default(v, d) == IF v = Undefined THEN d ELSE v

\* the parse of the enclosing object is aborted: its refinement is not run
Aborted(issues) ==
  \E i \in 1..Len(issues) : issues[i].code \in {"invalid_type", "invalid_enum_value"}

\* schema.parse(config) and the assignments of the constructor: what is
\* thrown (NoError when the object is built) and the object
Parsed(issues, this) ==
  IF issues = <<>> THEN [threw |-> NoError, this |-> this]
  ELSE [threw |-> ZodError(issues)]

EnvVarType == {Str(<<"G", "E", "N", "E", "R", "A", "L">>), Str(<<"S", "E", "C", "R", "E", "T">>)}

EnvVarScope == {Str(<<"R", "U", "N", "_", "T", "I", "M", "E">>), Str(<<"B", "U", "I", "L", "D", "_", "T", "I", "M", "E">>), Str(<<"D", "E", "P", "L", "O", "Y", "_", "T", "I", "M", "E">>)}

DockerRegistryType == {Str(<<"D", "O", "C", "K", "E", "R", "_", "H", "U", "B">>), Str(<<"D", "O", "C", "R">>), Str(<<"G", "H", "C", "R">>)}

INSTANCE_SIZE_SLUGS ==
  {Str(<<"b", "a", "s", "i", "c", "-", "x", "x", "s">>), Str(<<"b", "a", "s", "i", "c", "-", "x", "s">>), Str(<<"b", "a", "s", "i", "c", "-", "s">>), Str(<<"b", "a", "s", "i", "c", "-", "m">>),
   Str(<<"p", "r", "o", "f", "e", "s", "s", "i", "o", "n", "a", "l", "-", "x", "s">>), Str(<<"p", "r", "o", "f", "e", "s", "s", "i", "o", "n", "a", "l", "-", "s">>), Str(<<"p", "r", "o", "f", "e", "s", "s", "i", "o", "n", "a", "l", "-", "m">>),
   Str(<<"p", "r", "o", "f", "e", "s", "s", "i", "o", "n", "a", "l", "-", "l">>)}

InstanceSizeSlugsText ==
  <<"'", "b", "a", "s", "i", "c", "-", "x", "x", "s", "'", " ", "|", " ", "'", "b", "a", "s", "i", "c", "-", "x", "s", "'", " ", "|", " ", "'", "b", "a", "s", "i", "c", "-", "s", "'", " ", "|", " ", "'", "b", "a", "s", "i", "c", "-", "m", "'", " ", "|", " ", "'", "p", "r", "o", "f", "e", "s", "s", "i", "o", "n", "a", "l", "-", "x", "s", "'", " ", "|", " ", "'", "p", "r", "o", "f", "e", "s", "s", "i", "o", "n", "a", "l", "-", "s", "'", " ", "|", " ", "'", "p", "r", "o", "f", "e", "s", "s", "i", "o", "n", "a", "l", "-", "m", "'", " ", "|", " ", "'", "p", "r", "o", "f", "e", "s", "s", "i", "o", "n", "a", "l", "-", "l", "'">>

JobKind == {Str(<<"P", "R", "E", "_", "D", "E", "P", "L", "O", "Y">>), Str(<<"P", "O", "S", "T", "_", "D", "E", "P", "L", "O", "Y">>)}

\* new EnvironmentVariable(config)
NewEnvironmentVariable(config) ==
  LET key == Get(config.o, <<"k", "e", "y">>)
      value == Get(config.o, <<"v", "a", "l", "u", "e">>)
      type == Get(config.o, <<"t", "y", "p", "e">>)
      scope == Get(config.o, <<"s", "c", "o", "p", "e">>)
      issues ==
        nonEmptyString(key, "key", <<"K", "e", "y", " ", "m", "u", "s", "t", " ", "b", "e", " ", "n", "o", "n", "-", "e", "m", "p", "t", "y">>)
        \o (IF value # Undefined /\ value # Null THEN <<>>
            ELSE <<Issue("custom", "value", <<"V", "a", "l", "u", "e", " ", "i", "s", " ", "r", "e", "q", "u", "i", "r", "e", "d">>)>>)
        \o Optional(type, zEnum(type, "type", EnvVarType, <<"'", "G", "E", "N", "E", "R", "A", "L", "'", " ", "|", " ", "'", "S", "E", "C", "R", "E", "T", "'">>))
        \o Optional(scope, zEnum(scope, "scope", EnvVarScope,
                                 <<"'", "R", "U", "N", "_", "T", "I", "M", "E", "'", " ", "|", " ", "'", "B", "U", "I", "L", "D", "_", "T", "I", "M", "E", "'", " ", "|", " ", "'", "D", "E", "P", "L", "O", "Y", "_", "T", "I", "M", "E", "'">>))
  IN Parsed(issues,
            [cls |-> "EnvironmentVariable", key |-> key.s, value |-> value,
             type |-> Default(type, Str(<<"G", "E", "N", "E", "R", "A", "L">>)),
             scope |-> Default(scope, Str(<<"R", "U", "N", "_", "T", "I", "M", "E">>))])

\* the defaults left out: an omitted field stays undefined
HealthCheckNoDefaults(config) ==
  LET httpPath == Get(config.o, <<"h", "t", "t", "p", "P", "a", "t", "h">>)
      port == Get(config.o, <<"p", "o", "r", "t">>)
      issues ==
        nonEmptyString(httpPath, "httpPath", <<"H", "T", "T", "P", " ", "p", "a", "t", "h", " ", "m", "u", "s", "t", " ", "b", "e", " ", "n", "o", "n", "-", "e", "m", "p", "t", "y">>)
        \o zPort(port, "port", <<"P", "o", "r", "t", " ", "m", "u", "s", "t", " ", "b", "e", " ", "b", "e", "t", "w", "e", "e", "n", " ", "1", " ", "a", "n", "d", " ", "6", "5", "5", "3", "5">>)
  IN Parsed(issues,
            [cls |-> "HealthCheck", httpPath |-> httpPath, port |-> port,
             initialDelaySeconds |-> Get(config.o, <<"i", "n", "i", "t", "i", "a", "l", "D", "e", "l", "a", "y", "S", "e", "c", "o", "n", "d", "s">>),
             periodSeconds |-> Get(config.o, <<"p", "e", "r", "i", "o", "d", "S", "e", "c", "o", "n", "d", "s">>),
             timeoutSeconds |-> Get(config.o, <<"t", "i", "m", "e", "o", "u", "t", "S", "e", "c", "o", "n", "d", "s">>),
             successThreshold |-> Get(config.o, <<"s", "u", "c", "c", "e", "s", "s", "T", "h", "r", "e", "s", "h", "o", "l", "d">>),
             failureThreshold |-> Get(config.o, <<"f", "a", "i", "l", "u", "r", "e", "T", "h", "r", "e", "s", "h", "o", "l", "d">>)])

\* new HealthCheck(config)
NewHealthCheck(config) ==
  LET httpPath == Get(config.o, <<"h", "t", "t", "p", "P", "a", "t", "h">>)
      port == Get(config.o, <<"p", "o", "r", "t">>)
      initialDelaySeconds == Get(config.o, <<"i", "n", "i", "t", "i", "a", "l", "D", "e", "l", "a", "y", "S", "e", "c", "o", "n", "d", "s">>)
      periodSeconds == Get(config.o, <<"p", "e", "r", "i", "o", "d", "S", "e", "c", "o", "n", "d", "s">>)
      timeoutSeconds == Get(config.o, <<"t", "i", "m", "e", "o", "u", "t", "S", "e", "c", "o", "n", "d", "s">>)
      successThreshold == Get(config.o, <<"s", "u", "c", "c", "e", "s", "s", "T", "h", "r", "e", "s", "h", "o", "l", "d">>)
      failureThreshold == Get(config.o, <<"f", "a", "i", "l", "u", "r", "e", "T", "h", "r", "e", "s", "h", "o", "l", "d">>)
      atLeast1 == <<"N", "u", "m", "b", "e", "r", " ", "m", "u", "s", "t", " ", "b", "e", " ", "g", "r", "e", "a", "t", "e", "r", " ", "t", "h", "a", "n", " ", "o", "r", " ", "e", "q", "u", "a", "l", " ", "t", "o", " ", "1">>
      issues ==
        nonEmptyString(httpPath, "httpPath", <<"H", "T", "T", "P", " ", "p", "a", "t", "h", " ", "m", "u", "s", "t", " ", "b", "e", " ", "n", "o", "n", "-", "e", "m", "p", "t", "y">>)
        \o zPort(port, "port", <<"P", "o", "r", "t", " ", "m", "u", "s", "t", " ", "b", "e", " ", "b", "e", "t", "w", "e", "e", "n", " ", "1", " ", "a", "n", "d", " ", "6", "5", "5", "3", "5">>)
        \o Optional(initialDelaySeconds,
                    zIntMin(initialDelaySeconds, "initialDelaySeconds", 0,
                            <<"N", "u", "m", "b", "e", "r", " ", "m", "u", "s", "t", " ", "b", "e", " ", "g", "r", "e", "a", "t", "e", "r", " ", "t", "h", "a", "n", " ", "o", "r", " ", "e", "q", "u", "a", "l", " ", "t", "o", " ", "0">>))
        \o Optional(periodSeconds, zIntMin(periodSeconds, "periodSeconds", 1, atLeast1))
        \o Optional(timeoutSeconds, zIntMin(timeoutSeconds, "timeoutSeconds", 1, atLeast1))
        \o Optional(successThreshold,
                    zIntMin(successThreshold, "successThreshold", 1, atLeast1))
        \o Optional(failureThreshold,
                    zIntMin(failureThreshold, "failureThreshold", 1, atLeast1))
  IN Parsed(issues,
            [cls |-> "HealthCheck", httpPath |-> httpPath, port |-> port,
             initialDelaySeconds |-> Default(initialDelaySeconds, Num(0)),
             periodSeconds |-> Default(periodSeconds, Num(10)),
             timeoutSeconds |-> Default(timeoutSeconds, Num(1)),
             successThreshold |-> Default(successThreshold, Num(1)),
             failureThreshold |-> Default(failureThreshold, Num(3))])

\* the cross-field rule left out
DockerImageCrossIssueNone(registryType, registry, fieldIssues) == <<>>

\* the refinement of DockerImageSchema, run when the fields did not abort
DockerImageCrossIssue(registryType, registry, fieldIssues) ==
  IF /\ ~Aborted(fieldIssues)
     /\ registryType = Str(<<"D", "O", "C", "R">>)
     /\ ~(registry.t = "string" /\ trimNonEmpty(registry.s))
    THEN <<Issue("custom", "registry",
                 <<"D", "O", "C", "R", " ", "r", "e", "g", "i", "s", "t", "r", "y", " ", "t", "y", "p", "e", " ", "r", "e", "q", "u", "i", "r", "e", "s", " ", "n", "o", "n", "-", "e", "m", "p", "t", "y", " ", "r", "e", "g", "i", "s", "t", "r", "y", " ", "f", "i", "e", "l", "d">>)>>
    ELSE <<>>

\* new DockerImage(config)
NewDockerImage(config) ==
  LET registryType == Get(config.o, <<"r", "e", "g", "i", "s", "t", "r", "y", "T", "y", "p", "e">>)
      registry == Get(config.o, <<"r", "e", "g", "i", "s", "t", "r", "y">>)
      repository == Get(config.o, <<"r", "e", "p", "o", "s", "i", "t", "o", "r", "y">>)
      tag == Get(config.o, <<"t", "a", "g">>)
      fieldIssues ==
        zEnum(registryType, "registryType", DockerRegistryType,
              <<"'", "D", "O", "C", "K", "E", "R", "_", "H", "U", "B", "'", " ", "|", " ", "'", "D", "O", "C", "R", "'", " ", "|", " ", "'", "G", "H", "C", "R", "'">>)
        \o Optional(registry,
                    nonEmptyString(registry, "registry",
                                   <<"R", "e", "g", "i", "s", "t", "r", "y", " ", "m", "u", "s", "t", " ", "b", "e", " ", "n", "o", "n", "-", "e", "m", "p", "t", "y", " ", "w", "h", "e", "n", " ", "s", "p", "e", "c", "i", "f", "i", "e", "d">>))
        \o nonEmptyString(repository, "repository", <<"R", "e", "p", "o", "s", "i", "t", "o", "r", "y", " ", "m", "u", "s", "t", " ", "b", "e", " ", "n", "o", "n", "-", "e", "m", "p", "t", "y">>)
        \o nonEmptyString(tag, "tag", <<"T", "a", "g", " ", "m", "u", "s", "t", " ", "b", "e", " ", "n", "o", "n", "-", "e", "m", "p", "t", "y">>)
      issues == fieldIssues \o DockerImageCrossIssue(registryType, registry, fieldIssues)
  IN Parsed(issues,
            [cls |-> "DockerImage", registryType |-> registryType, registry |-> registry,
             repository |-> repository, tag |-> tag])

\* the characters of [a-zA-Z0-9_-]
RepoChars ==
  LET cs == <<"a", "b", "c", "d", "e", "f", "g", "h", "i", "j", "k", "l", "m", "n", "o", "p", "q", "r", "s", "t", "u", "v", "w", "x", "y", "z", "A", "B", "C", "D", "E", "F", "G", "H", "I", "J", "K", "L", "M", "N", "O", "P", "Q", "R", "S", "T", "U", "V", "W", "X", "Y", "Z", "0", "1", "2", "3", "4", "5", "6", "7", "8", "9", "_", "-">>
  IN {cs[i] : i \in 1..Len(cs)}

\* GITHUB_REPO_PATTERN.test(s): /^[a-zA-Z0-9_-]+\/[a-zA-Z0-9_-]+$/
MatchesRepoPattern(s) ==
  \E k \in 2..(Len(s) - 1) :
    /\ s[k] = "/"
    /\ \A i \in 1..Len(s) : i # k => s[i] \in RepoChars

\* new GitHubSource(config)
NewGitHubSource(config) ==
  LET repo == Get(config.o, <<"r", "e", "p", "o">>)
      branch == Get(config.o, <<"b", "r", "a", "n", "c", "h">>)
      sourceDir == Get(config.o, <<"s", "o", "u", "r", "c", "e", "D", "i", "r">>)
      dockerfilePath == Get(config.o, <<"d", "o", "c", "k", "e", "r", "f", "i", "l", "e", "P", "a", "t", "h">>)
      deployOnPush == Get(config.o, <<"d", "e", "p", "l", "o", "y", "O", "n", "P", "u", "s", "h">>)
      issues ==
        (IF repo.t # "string" THEN <<InvalidType("repo", <<"s", "t", "r", "i", "n", "g">>, repo)>>
         ELSE IF MatchesRepoPattern(repo.s) THEN <<>>
         ELSE <<Issue("invalid_string", "repo", <<"M", "u", "s", "t", " ", "b", "e", " ", "i", "n", " ", "f", "o", "r", "m", "a", "t", " ">> \o <<"\"">>
                        \o <<"o", "w", "n", "e", "r", "/", "r", "e", "p", "o">> \o <<"\"">>)>>)
        \o nonEmptyString(branch, "branch", <<"B", "r", "a", "n", "c", "h", " ", "m", "u", "s", "t", " ", "b", "e", " ", "n", "o", "n", "-", "e", "m", "p", "t", "y">>)
        \o Optional(sourceDir, zString(sourceDir, "sourceDir"))
        \o Optional(dockerfilePath,
                    nonEmptyString(dockerfilePath, "dockerfilePath",
                                   <<"D", "o", "c", "k", "e", "r", "f", "i", "l", "e", " ", "p", "a", "t", "h", " ", "m", "u", "s", "t", " ", "b", "e", " ", "n", "o", "n", "-", "e", "m", "p", "t", "y">>))
        \o Optional(deployOnPush, zBoolean(deployOnPush, "deployOnPush"))
  IN Parsed(issues,
            [cls |-> "GitHubSource", repo |-> repo, branch |-> branch,
             sourceDir |-> Default(sourceDir, Str(<<"/">>)),
             dockerfilePath |-> Default(dockerfilePath, Str(<<"D", "o", "c", "k", "e", "r", "f", "i", "l", "e">>)),
             deployOnPush |-> Default(deployOnPush, Bool(FALSE))])

\* new VolumeMount(config); size is config.size ?? '1GB'
NewVolumeMount(config) ==
  LET name == Get(config.o, <<"n", "a", "m", "e">>)
      mountPath == Get(config.o, <<"m", "o", "u", "n", "t", "P", "a", "t", "h">>)
      given == Get(config.o, <<"s", "i", "z", "e">>)
      size == IF given = Undefined \/ given = Null THEN Str(<<"1", "G", "B">>) ELSE given
      issues ==
        nonEmptyString(name, "name", <<"N", "a", "m", "e", " ", "m", "u", "s", "t", " ", "b", "e", " ", "n", "o", "n", "-", "e", "m", "p", "t", "y">>)
        \o (IF mountPath.t # "string" THEN <<InvalidType("mountPath", <<"s", "t", "r", "i", "n", "g">>, mountPath)>>
            ELSE IF Len(mountPath.s) >= 1 /\ mountPath.s[1] = "/" THEN <<>>
            ELSE <<Issue("invalid_string", "mountPath",
                         <<"M", "u", "s", "t", " ", "b", "e", " ", "a", "n", " ", "a", "b", "s", "o", "l", "u", "t", "e", " ", "p", "a", "t", "h", " ", "(", "s", "t", "a", "r", "t", "i", "n", "g", " ", "w", "i", "t", "h", " ", "/", ")">>)>>)
        \o (IF size.t # "string" THEN <<InvalidType("size", <<"s", "t", "r", "i", "n", "g">>, size)>>
            ELSE IF Len(size.s) >= 1 THEN <<>>
            ELSE <<Issue("too_small", "size", <<"S", "i", "z", "e", " ", "m", "u", "s", "t", " ", "b", "e", " ", "n", "o", "n", "-", "e", "m", "p", "t", "y">>)>>)
  IN Parsed(issues,
            [cls |-> "VolumeMount", name |-> name, mountPath |-> mountPath, size |-> size])

\* the parse of the AppPlatformResource constructor
BaseIssues(config) ==
  LET name == Get(config.o, <<"n", "a", "m", "e">>)
      envs == Get(config.o, <<"e", "n", "v", "s">>)
  IN nonEmptyString(name, "name", <<"N", "a", "m", "e", " ", "m", "u", "s", "t", " ", "b", "e", " ", "n", "o", "n", "-", "e", "m", "p", "t", "y">>)
     \o Optional(envs, IF envs.t = "array" THEN <<>>
                       ELSE <<InvalidType("envs", <<"a", "r", "r", "a", "y">>, envs)>>)

RECURSIVE PortElementIssues(_, _)
\* the issues of the elements a[i], a[i + 1], ... of internalPorts, each at
\* path ['internalPorts', index]
PortElementIssues(a, i) ==
  IF i > Len(a) THEN <<>>
  ELSE LET issues == zPort(a[i], "internalPorts",
                           <<"N", "u", "m", "b", "e", "r", " ", "m", "u", "s", "t", " ", "b", "e", " ", "l", "e", "s", "s", " ", "t", "h", "a", "n", " ", "o", "r", " ", "e", "q", "u", "a", "l", " ", "t", "o", " ", "6", "5", "5", "3", "5">>)
       IN [k \in 1..Len(issues) |-> [issues[k] EXCEPT !.path = <<"internalPorts", i - 1>>]]
          \o PortElementIssues(a, i + 1)

\* z.array(z.number().int().min(1).max(65535)).optional() on internalPorts
InternalPortsIssues(v) ==
  Optional(v, IF v.t = "array" THEN PortElementIssues(v.a, 1)
              ELSE <<InvalidType("internalPorts", <<"a", "r", "r", "a", "y">>, v)>>)

\* the parse of the primitive fields in the Service constructor
ServiceIssues(config) ==
  LET instanceSizeSlug == Get(config.o, <<"i", "n", "s", "t", "a", "n", "c", "e", "S", "i", "z", "e", "S", "l", "u", "g">>)
      instanceCount == Get(config.o, <<"i", "n", "s", "t", "a", "n", "c", "e", "C", "o", "u", "n", "t">>)
      httpPort == Get(config.o, <<"h", "t", "t", "p", "P", "o", "r", "t">>)
      runCommand == Get(config.o, <<"r", "u", "n", "C", "o", "m", "m", "a", "n", "d">>)
  IN zEnum(instanceSizeSlug, "instanceSizeSlug", INSTANCE_SIZE_SLUGS, InstanceSizeSlugsText)
     \o zIntMin(instanceCount, "instanceCount", 1,
                <<"I", "n", "s", "t", "a", "n", "c", "e", " ", "c", "o", "u", "n", "t", " ", "m", "u", "s", "t", " ", "b", "e", " ", "a", " ", "p", "o", "s", "i", "t", "i", "v", "e", " ", "i", "n", "t", "e", "g", "e", "r">>)
     \o Optional(httpPort, zPort(httpPort, "httpPort", <<"P", "o", "r", "t", " ", "m", "u", "s", "t", " ", "b", "e", " ", "b", "e", "t", "w", "e", "e", "n", " ", "1", " ", "a", "n", "d", " ", "6", "5", "5", "3", "5">>))
     \o InternalPortsIssues(Get(config.o, <<"i", "n", "t", "e", "r", "n", "a", "l", "P", "o", "r", "t", "s">>))
     \o Optional(runCommand, zString(runCommand, "runCommand"))

\* the parse of the primitive fields in the Worker constructor
WorkerIssues(config) ==
  LET instanceSizeSlug == Get(config.o, <<"i", "n", "s", "t", "a", "n", "c", "e", "S", "i", "z", "e", "S", "l", "u", "g">>)
      instanceCount == Get(config.o, <<"i", "n", "s", "t", "a", "n", "c", "e", "C", "o", "u", "n", "t">>)
      runCommand == Get(config.o, <<"r", "u", "n", "C", "o", "m", "m", "a", "n", "d">>)
  IN zEnum(instanceSizeSlug, "instanceSizeSlug", INSTANCE_SIZE_SLUGS, InstanceSizeSlugsText)
     \o zIntMin(instanceCount, "instanceCount", 1,
                <<"I", "n", "s", "t", "a", "n", "c", "e", " ", "c", "o", "u", "n", "t", " ", "m", "u", "s", "t", " ", "b", "e", " ", "a", " ", "p", "o", "s", "i", "t", "i", "v", "e", " ", "i", "n", "t", "e", "g", "e", "r">>)
     \o InternalPortsIssues(Get(config.o, <<"i", "n", "t", "e", "r", "n", "a", "l", "P", "o", "r", "t", "s">>))
     \o Optional(runCommand, zString(runCommand, "runCommand"))

\* the parse of the primitive fields in the Job constructor
JobIssues(config) ==
  LET kind == Get(config.o, <<"k", "i", "n", "d">>)
      runCommand == Get(config.o, <<"r", "u", "n", "C", "o", "m", "m", "a", "n", "d">>)
      instanceSizeSlug == Get(config.o, <<"i", "n", "s", "t", "a", "n", "c", "e", "S", "i", "z", "e", "S", "l", "u", "g">>)
      instanceCount == Get(config.o, <<"i", "n", "s", "t", "a", "n", "c", "e", "C", "o", "u", "n", "t">>)
  IN zEnum(kind, "kind", JobKind, <<"'", "P", "R", "E", "_", "D", "E", "P", "L", "O", "Y", "'", " ", "|", " ", "'", "P", "O", "S", "T", "_", "D", "E", "P", "L", "O", "Y", "'">>)
     \o nonEmptyString(runCommand, "runCommand", <<"R", "u", "n", " ", "c", "o", "m", "m", "a", "n", "d", " ", "m", "u", "s", "t", " ", "b", "e", " ", "n", "o", "n", "-", "e", "m", "p", "t", "y">>)
     \o Optional(instanceSizeSlug,
                 zEnum(instanceSizeSlug, "instanceSizeSlug", INSTANCE_SIZE_SLUGS,
                       InstanceSizeSlugsText))
     \o Optional(instanceCount,
                 zIntMin(instanceCount, "instanceCount", 1,
                         <<"N", "u", "m", "b", "e", "r", " ", "m", "u", "s", "t", " ", "b", "e", " ", "g", "r", "e", "a", "t", "e", "r", " ", "t", "h", "a", "n", " ", "o", "r", " ", "e", "q", "u", "a", "l", " ", "t", "o", " ", "1">>))

\* the fields the constructor of class cls assigns from config; envs is
\* filled in by the AppPlatformResource constructor
AggregateFields(cls, config) ==
  IF cls = "Service" THEN
    [cls |-> cls, name |-> Get(config.o, <<"n", "a", "m", "e">>),
     instanceSizeSlug |-> Get(config.o, <<"i", "n", "s", "t", "a", "n", "c", "e", "S", "i", "z", "e", "S", "l", "u", "g">>),
     instanceCount |-> Get(config.o, <<"i", "n", "s", "t", "a", "n", "c", "e", "C", "o", "u", "n", "t">>),
     httpPort |-> Get(config.o, <<"h", "t", "t", "p", "P", "o", "r", "t">>),
     internalPorts |-> Get(config.o, <<"i", "n", "t", "e", "r", "n", "a", "l", "P", "o", "r", "t", "s">>),
     healthCheck |-> Get(config.o, <<"h", "e", "a", "l", "t", "h", "C", "h", "e", "c", "k">>),
     runCommand |-> Get(config.o, <<"r", "u", "n", "C", "o", "m", "m", "a", "n", "d">>),
     volumes |-> Get(config.o, <<"v", "o", "l", "u", "m", "e", "s">>),
     source |-> Get(config.o, <<"s", "o", "u", "r", "c", "e">>), envs |-> 0]
  ELSE IF cls = "Job" THEN
    [cls |-> cls, name |-> Get(config.o, <<"n", "a", "m", "e">>), kind |-> Get(config.o, <<"k", "i", "n", "d">>),
     runCommand |-> Get(config.o, <<"r", "u", "n", "C", "o", "m", "m", "a", "n", "d">>),
     instanceSizeSlug |-> Get(config.o, <<"i", "n", "s", "t", "a", "n", "c", "e", "S", "i", "z", "e", "S", "l", "u", "g">>),
     instanceCount |-> Get(config.o, <<"i", "n", "s", "t", "a", "n", "c", "e", "C", "o", "u", "n", "t">>),
     source |-> Get(config.o, <<"s", "o", "u", "r", "c", "e">>), envs |-> 0]
  ELSE
    [cls |-> cls, name |-> Get(config.o, <<"n", "a", "m", "e">>),
     instanceSizeSlug |-> Get(config.o, <<"i", "n", "s", "t", "a", "n", "c", "e", "S", "i", "z", "e", "S", "l", "u", "g">>),
     instanceCount |-> Get(config.o, <<"i", "n", "s", "t", "a", "n", "c", "e", "C", "o", "u", "n", "t">>),
     internalPorts |-> Get(config.o, <<"i", "n", "t", "e", "r", "n", "a", "l", "P", "o", "r", "t", "s">>),
     runCommand |-> Get(config.o, <<"r", "u", "n", "C", "o", "m", "m", "a", "n", "d">>),
     volumes |-> Get(config.o, <<"v", "o", "l", "u", "m", "e", "s">>),
     source |-> Get(config.o, <<"s", "o", "u", "r", "c", "e">>), envs |-> 0]

\* new Service(config), new Job(config), new Worker(config) for a config
\* without envs or with an empty envs array: super(...) throws first, then
\* the parse of the primitive fields
NewAggregate(cls, config) ==
  LET base == BaseIssues(config)
      own == IF cls = "Service" THEN ServiceIssues(config)
             ELSE IF cls = "Job" THEN JobIssues(config)
             ELSE WorkerIssues(config)
      c == NewResource(AggregateFields(cls, config), <<>>)
  IN IF base # <<>> THEN [threw |-> ZodError(base)]
     ELSE IF own # <<>> THEN [threw |-> ZodError(own)]
     ELSE [threw |-> NoError, this |-> c.this, heap |-> c.heap]

\* new cls(config)
New(cls, config) ==
  CASE cls = "EnvironmentVariable" -> NewEnvironmentVariable(config)
    [] cls = "HealthCheck" -> NewHealthCheck(config)
    [] cls = "DockerImage" -> NewDockerImage(config)
    [] cls = "GitHubSource" -> NewGitHubSource(config)
    [] cls = "VolumeMount" -> NewVolumeMount(config)
    [] OTHER -> NewAggregate(cls, config)

\* x.toJSON() of what new cls(config) built
ToJSONOf(built) ==
  CASE built.this.cls = "EnvironmentVariable" -> EnvToJSON(built.this)
    [] built.this.cls = "HealthCheck" -> HealthCheckToJSON(built.this)
    [] built.this.cls = "DockerImage" -> DockerImageToJSON(built.this)
    [] built.this.cls = "GitHubSource" -> GitHubSourceToJSON(built.this)
    [] built.this.cls = "VolumeMount" -> VolumeMountToJSON(built.this)
    [] OTHER -> toJSON(built.this, built.heap)

\* x.toJSON() on a plain object, which has no such method
NotAFunction(receiver) ==
  [name |-> "TypeError", message |-> receiver \o <<".", "t", "o", "J", "S", "O", "N", " ", "i", "s", " ", "n", "o", "t", " ", "a", " ", "f", "u", "n", "c", "t", "i", "o", "n">>]

\* the receivers of the toJSON calls that cls.toJSON makes on an aggregate
\* built from config, in call order
ToJSONReceivers(cls, config) ==
  LET envs == Get(config.o, <<"e", "n", "v", "s">>)
      healthCheck == Get(config.o, <<"h", "e", "a", "l", "t", "h", "C", "h", "e", "c", "k">>)
      volumes == Get(config.o, <<"v", "o", "l", "u", "m", "e", "s">>)
      source == Get(config.o, <<"s", "o", "u", "r", "c", "e">>)
  IN (IF envs # Undefined /\ Len(envs.a) > 0 THEN <<<<"e", "n", "v">>>> ELSE <<>>)
     \o (IF cls = "Service" /\ healthCheck # Undefined
           THEN <<<<"t", "h", "i", "s", ".", "h", "e", "a", "l", "t", "h", "C", "h", "e", "c", "k">>>> ELSE <<>>)
     \o (IF cls # "Job" /\ volumes # Undefined /\ Len(volumes.a) > 0
           THEN <<<<"v", "o", "l", "u", "m", "e">>>> ELSE <<>>)
     \o (IF source # Undefined THEN <<<<"t", "h", "i", "s", ".", "s", "o", "u", "r", "c", "e">>>> ELSE <<>>)

\* new cls(json).toJSON() for a projection json, whose nested values are
\* plain objects: what is thrown, and the projection of the rebuilt object
Rebuilt(cls, json) ==
  IF cls \in {"Service", "Job", "Worker"} THEN
    LET base == BaseIssues(json)
        own == IF cls = "Service" THEN ServiceIssues(json)
               ELSE IF cls = "Job" THEN JobIssues(json)
               ELSE WorkerIssues(json)
        receivers == ToJSONReceivers(cls, json)
        c == NewResource(AggregateFields(cls, json), <<>>)
    IN IF base # <<>> THEN [threw |-> ZodError(base)]
       ELSE IF own # <<>> THEN [threw |-> ZodError(own)]
       ELSE IF receivers # <<>> THEN [threw |-> NotAFunction(receivers[1])]
       ELSE [threw |-> NoError, res |-> toJSON(c.this, c.heap)]
  ELSE
    LET built == New(cls, json)
    IN IF built.threw # NoError THEN [threw |-> built.threw]
       ELSE [threw |-> NoError, res |-> ToJSONOf(built)]

(***************************************************************************)
(* serializer.ts                                                           *)
(***************************************************************************)
\* name in value, for an object: an own property or one of the prototype
HasProperty(value, name) ==
  /\ value.t = "object"
  /\ \/ HasKey(value.o, name)
     \/ "p" \in DOMAIN value /\ name \in value.p

\* only own properties are looked at
isPulumiOutputOwn(value) ==
  /\ value.t = "object"
  /\ HasKey(value.o, <<"i", "s", "S", "e", "c", "r", "e", "t">>)
  /\ HasKey(value.o, <<"t", "h", "e", "n">>)

isPulumiOutput(value) ==
  /\ value.t # "null"
  /\ value.t \in {"object", "array"}
  /\ HasProperty(value, <<"i", "s", "S", "e", "c", "r", "e", "t">>)
  /\ HasProperty(value, <<"t", "h", "e", "n">>)

\* The reference of the object found at position `at` of a tree.  A Map
\* compares its object keys by reference, not by content: an object that
\* carries an identity is the same object wherever it occurs, and an
\* object written out in the tree is an object of its own at each position,
\* whatever other object has the same content.
Reference(value, at) ==
  IF "id" \in DOMAIN value THEN <<"id", value.id>> ELSE <<"at", at>>

RECURSIVE FlatMap(_, _, _, _)
\* the concatenation of F(s[i], at \o <<i>>), ..., for i up to Len(s)
FlatMap(F(_, _), s, at, i) ==
  IF i > Len(s) THEN <<>> ELSE F(s[i], Append(at, i)) \o FlatMap(F, s, at, i + 1)

RECURSIVE extractPulumiOutputs(_, _)
\* obj is the value at position `at` of the tree; an entry holds the Output
\* itself, of which `ref` is the reference, and the path, always empty
extractPulumiOutputs(obj, at) ==
  IF isPulumiOutput(obj)
    THEN << [value |-> obj, path |-> <<>>, ref |-> Reference(obj, at)] >>
  ELSE IF obj.t = "array" THEN FlatMap(extractPulumiOutputs, obj.a, at, 1)
  ELSE IF obj.t = "object" THEN
    FlatMap(extractPulumiOutputs, [i \in 1..Len(obj.o) |-> obj.o[i][2]], at, 1)
  ELSE <<>>

\* resolvedMap.get(obj) on new Map(pairs), the keys being references: the
\* value of the last pair whose key is the object itself, undefined when
\* there is none
MapGet(pairs, ref) ==
  IF \E i \in 1..Len(pairs) : pairs[i][1] = ref
    THEN pairs[CHOOSE i \in 1..Len(pairs) :
                 /\ pairs[i][1] = ref
                 /\ \A j \in (i + 1)..Len(pairs) : pairs[j][1] # ref][2]
    ELSE Undefined

RECURSIVE replacePulumiOutputs(_, _, _)
\* obj is the value at position `at` of the tree
replacePulumiOutputs(obj, resolvedMap, at) ==
  IF isPulumiOutput(obj) THEN MapGet(resolvedMap, Reference(obj, at))
  ELSE IF obj.t = "array" THEN
    Arr([i \in 1..Len(obj.a) |->
           replacePulumiOutputs(obj.a[i], resolvedMap, Append(at, i))])
  ELSE IF obj.t = "object" THEN
    Obj([i \in 1..Len(obj.o) |->
           <<obj.o[i][1], replacePulumiOutputs(obj.o[i][2], resolvedMap, Append(at, i))>>])
  ELSE obj

\* yaml.dump(transformed, {indent: 2, lineWidth: -1, noRefs: true,
\* sortKeys: false}): the text is fixed by the value dumped, keys in
\* insertion order; js-yaml is a library, its text is not modelled further
dump(transformed) == [yaml |-> transformed]

\* removeEmpty, transformKeys and yaml.dump of obj: the path without Pulumi
\* Outputs, and the catch block
dumpCleaned(obj) == dump(transformKeys(removeEmpty(obj)))

\* what pulumi.all resolves an Output to: the value it wraps
Resolution(output) == Get(output.o, <<"v", "a", "l">>)

\* each Output paired with the result of the opposite end of the batch
objWithResolvedReversed(obj, pulumiOutputs, resolved) ==
  LET resolvedMap == [i \in 1..Len(pulumiOutputs) |->
                        <<pulumiOutputs[i].ref, resolved[Len(resolved) + 1 - i]>>]
  IN replacePulumiOutputs(obj, resolvedMap, <<>>)

\* the tree with the Outputs replaced, once pulumi.all has resolved the
\* batch to `resolved`: resolvedMap pairs each Output with the result at
\* its index
objWithResolved(obj, pulumiOutputs, resolved) ==
  LET resolvedMap == [i \in 1..Len(pulumiOutputs) |->
                        <<pulumiOutputs[i].ref, resolved[i]>>]
  IN replacePulumiOutputs(obj, resolvedMap, <<>>)

\* the try block after pulumi.all has resolved the batch to `resolved`
dumpResolved(obj, pulumiOutputs, resolved) ==
  dumpCleaned(objWithResolved(obj, pulumiOutputs, resolved))

\* new Error('Pulumi Outputs found. Use async toYAML() instead to resolve them.')
PulumiOutputsFoundError ==
  [name |-> "Error",
   message |-> <<"P", "u", "l", "u", "m", "i", " ", "O", "u", "t", "p", "u", "t", "s", " ", "f", "o", "u", "n", "d", ".", " ", "U", "s", "e", " ", "a", "s", "y", "n", "c", " ", "t", "o", "Y", "A", "M", "L", "(", ")", " ", "i", "n", "s", "t", "e", "a", "d", " ", "t", "o", " ", "r", "e", "s", "o", "l", "v", "e", " ", "t", "h", "e", "m", ".">>]

\* toYAMLSync(obj): what it throws (NoError when it returns) and the text
\* toYAMLSync without the renaming of keys
toYAMLSyncNoRename(obj) ==
  IF Len(extractPulumiOutputs(obj, <<>>)) > 0
    THEN [threw |-> PulumiOutputsFoundError]
    ELSE [threw |-> NoError, res |-> dump(removeEmpty(obj))]

toYAMLSync(obj) ==
  IF Len(extractPulumiOutputs(obj, <<>>)) > 0
    THEN [threw |-> PulumiOutputsFoundError]
    ELSE [threw |-> NoError, res |-> dumpCleaned(obj)]

(***************************************************************************)
(* Inputs of the transformer functions: every tree of at most MaxNodes     *)
(* nodes over a few leaves and keys, and some larger trees.                *)
(***************************************************************************)
LeafPool == {Undefined, Null, Num(0), Bool(FALSE), Str(<<>>), Str(<<"R", "U", "N", "_", "T", "I", "M", "E">>)}

KeyPool == {<<"a", "B">>, <<"a", "_", "b">>, <<"c">>}

\* the sequences of n distinct keys
KeySeqs(n) == {ks \in [1..n -> KeyPool] : \A i, j \in 1..n : i # j => ks[i] # ks[j]}

RECURSIVE TreesOfSize(_)
RECURSIVE Forests(_)
\* the sequences of trees that have n nodes in all
Forests(n) ==
  IF n = 0 THEN {<<>>}
  ELSE UNION {{<<tr>> \o f : tr \in TreesOfSize(k), f \in Forests(n - k)} : k \in 1..n}

TreesOfSize(n) ==
  IF n = 0 THEN {}
  ELSE (IF n = 1 THEN LeafPool ELSE {})
       \cup {Arr(f) : f \in Forests(n - 1)}
       \cup UNION {{Obj([i \in 1..Len(f) |-> <<ks[i], f[i]>>]) : ks \in KeySeqs(Len(f))}
                   : f \in {g \in Forests(n - 1) : Len(g) <= Cardinality(KeyPool)}}

\* {a: undefined, b: null, c: [], d: {e: null}, f: 0, g: false}
PruneExample ==
  Obj(<< <<<<"a">>, Undefined>>, <<<<"b">>, Null>>, <<<<"c">>, Arr(<<>>)>>,
         <<<<"d">>, Obj(<< <<<<"e">>, Null>> >>)>>, <<<<"f">>, Num(0)>>, <<<<"g">>, Bool(FALSE)>> >>)

\* a projection-shaped tree: camel-case keys at three depths, one of them
\* inside an array, a run of capitals, and string values holding capitals
RenameExample ==
  Obj(<< <<<<"i", "n", "s", "t", "a", "n", "c", "e", "S", "i", "z", "e", "S", "l", "u", "g">>, Str(<<"p", "r", "o", "f", "e", "s", "s", "i", "o", "n", "a", "l", "-", "x", "s">>)>>,
         <<<<"s", "o", "u", "r", "c", "e">>, Obj(<< <<<<"r", "e", "g", "i", "s", "t", "r", "y", "T", "y", "p", "e">>, Str(<<"D", "O", "C", "K", "E", "R", "_", "H", "U", "B">>)>> >>)>>,
         <<<<"e", "n", "v", "s">>, Arr(<< Obj(<< <<<<"k", "e", "y">>, Str(<<"P", "O", "R", "T">>)>>,
                                   <<<<"s", "c", "o", "p", "e">>, Str(<<"R", "U", "N", "_", "T", "I", "M", "E">>)>> >>),
                            Obj(<< <<<<"d", "e", "p", "l", "o", "y", "O", "n", "P", "u", "s", "h">>, Bool(FALSE)>> >>) >>)>>,
         <<<<"H", "T", "T", "P", "P", "a", "t", "h">>, Str(<<"/">>)>> >>)

\* an array whose surviving elements are separated by pruned ones
OrderExample ==
  Arr(<< Null, Num(0), Undefined, Str(<<>>), Arr(<<Null>>),
         Arr(<<Arr(<<>>), Obj(<<>>), Num(1)>>), Bool(FALSE) >>)

InputTrees ==
  UNION {TreesOfSize(n) : n \in 1..MaxNodes}
  \cup {PruneExample, RenameExample, OrderExample}

(***************************************************************************)
(* The aggregates of the model, as their constructors leave them.          *)
(***************************************************************************)
Services ==
  [cls : {"Service"}, name : {Str(<<"r", "e", "s", "t">>)},
   instanceSizeSlug : {Str(<<"p", "r", "o", "f", "e", "s", "s", "i", "o", "n", "a", "l", "-", "x", "s">>)}, instanceCount : {Num(1)},
   httpPort : {Undefined, Num(3000)},
   internalPorts : {Undefined, Arr(<<>>), Arr(<<Num(8081), Num(8082)>>)},
   healthCheck : {Undefined, SampleHealthCheck},
   runCommand : {Undefined, Str(<<>>), Str(<<"n", "p", "m", " ", "s", "t", "a", "r", "t">>)},
   volumes : {Undefined, Arr(<<>>), Arr(<<SampleVolumeMount>>)},
   source : {Undefined, SampleDockerImage, SampleDocrDockerImage, SampleGitHubSource},
   envs : {0}]

Jobs ==
  [cls : {"Job"}, name : {Str(<<"m", "i", "g", "r", "a", "t", "e">>)},
   kind : {Str(<<"P", "R", "E", "_", "D", "E", "P", "L", "O", "Y">>), Str(<<"P", "O", "S", "T", "_", "D", "E", "P", "L", "O", "Y">>)},
   runCommand : {Str(<<"n", "p", "x", " ", "p", "r", "i", "s", "m", "a", " ", "m", "i", "g", "r", "a", "t", "e", " ", "d", "e", "p", "l", "o", "y">>)},
   instanceSizeSlug : {Undefined, Str(<<"p", "r", "o", "f", "e", "s", "s", "i", "o", "n", "a", "l", "-", "x", "s">>)},
   instanceCount : {Undefined, Num(1)},
   source : {Undefined, SampleDockerImage, SampleDocrDockerImage, SampleGitHubSource},
   envs : {0}]

Workers ==
  [cls : {"Worker"}, name : {Str(<<"q", "u", "e", "u", "e">>)},
   instanceSizeSlug : {Str(<<"b", "a", "s", "i", "c", "-", "x", "x", "s">>)}, instanceCount : {Num(2)},
   internalPorts : {Undefined, Arr(<<>>), Arr(<<Num(8081), Num(8082)>>)},
   runCommand : {Undefined, Str(<<>>), Str(<<"n", "p", "m", " ", "s", "t", "a", "r", "t">>)},
   volumes : {Undefined, Arr(<<>>), Arr(<<SampleVolumeMount>>)},
   source : {Undefined, SampleDockerImage, SampleDocrDockerImage, SampleGitHubSource},
   envs : {0}]

\* new Service({name: 'rest', instanceSizeSlug: 'professional-xs', instanceCount: 1})
MinimalService ==
  [cls |-> "Service", name |-> Str(<<"r", "e", "s", "t">>),
   instanceSizeSlug |-> Str(<<"p", "r", "o", "f", "e", "s", "s", "i", "o", "n", "a", "l", "-", "x", "s">>), instanceCount |-> Num(1),
   httpPort |-> Undefined, internalPorts |-> Undefined, healthCheck |-> Undefined,
   runCommand |-> Undefined, volumes |-> Undefined, source |-> Undefined, envs |-> 0]

SampleJob ==
  [cls |-> "Job", name |-> Str(<<"m", "i", "g", "r", "a", "t", "e">>), kind |-> Str(<<"P", "R", "E", "_", "D", "E", "P", "L", "O", "Y">>),
   runCommand |-> Str(<<"n", "p", "x", " ", "p", "r", "i", "s", "m", "a", " ", "m", "i", "g", "r", "a", "t", "e", " ", "d", "e", "p", "l", "o", "y">>),
   instanceSizeSlug |-> Str(<<"p", "r", "o", "f", "e", "s", "s", "i", "o", "n", "a", "l", "-", "x", "s">>), instanceCount |-> Num(1),
   source |-> SampleDockerImage, envs |-> 0]

SampleWorker ==
  [cls |-> "Worker", name |-> Str(<<"q", "u", "e", "u", "e">>),
   instanceSizeSlug |-> Str(<<"b", "a", "s", "i", "c", "-", "x", "x", "s">>), instanceCount |-> Num(2),
   internalPorts |-> Arr(<<Num(8081)>>), runCommand |-> Str(<<"n", "p", "m", " ", "s", "t", "a", "r", "t">>),
   volumes |-> Arr(<<SampleVolumeMount>>), source |-> Undefined, envs |-> 0]

SampleAggregates == {MinimalService, SampleJob, SampleWorker}

\* the arrays a caller passes as config.envs (duplicate keys are accepted)
SeqsUpTo(S, n) == UNION {[1..k -> S] : k \in 0..n}

InitialEnvs == SeqsUpTo(EnvIds, MaxInitialEnvs)

\* the keys asked for by removeEnv and getEnv
KeyArgs == {Envs[e].key : e \in EnvIds} \cup {<<"M", "I", "S", "S", "I", "N", "G">>}

(***************************************************************************)
(* An aggregate after construction, and the calls made on it.              *)
(***************************************************************************)
NoCall == [op |-> "none"]

\* this.internalPorts = config.internalPorts and this.volumes =
\* config.volumes of the Service and Worker constructors: the field is the
\* caller's array, not a copy of it.  The arrays of config are arrays of
\* heap h, and the fields refer to them.
ByReference(config, h) ==
  LET IsArray(f) == f \in DOMAIN config /\ config[f].t = "array"
      ports == IF IsArray("internalPorts") THEN <<config.internalPorts.a>> ELSE <<>>
      volumes == IF IsArray("volumes") THEN <<config.volumes.a>> ELSE <<>>
      Field(f, r) == IF IsArray(f) THEN [t |-> "array", r |-> r] ELSE config[f]
  IN [heap |-> h \o ports \o volumes,
      this |-> [f \in DOMAIN config |->
                  IF f = "internalPorts" THEN Field(f, Len(h) + 1)
                  ELSE IF f = "volumes" THEN Field(f, Len(h) + Len(ports) + 1)
                  ELSE config[f]]]

\* new X(config) for a config of `configs`, without envs or with one of the
\* arrays `initial`, which the caller keeps
Constructed(configs, initial) ==
  \E config \in configs :
    \/ LET b == ByReference(config, <<>>)
           c == NewResource(b.this, b.heap)
       IN self = c.this /\ heap = c.heap /\ held = [init |-> 0, snaps |-> {}]
    \/ \E list \in initial :
         LET b == ByReference([config EXCEPT !.envs = 1], <<list>>)
             c == NewResource(b.this, b.heap)
         IN self = c.this /\ heap = c.heap /\ held = [init |-> 1, snaps |-> {}]

Init ==
  /\ Constructed(SampleAggregates, InitialEnvs)
  /\ nmut = 0
  /\ calls = <<>>
  /\ pulumi = "unknown"
  /\ input = Undefined
  /\ last = NoCall

AddEnv(e) ==
  LET r == addEnv(heap, self.envs, e)
  IN /\ heap' = r.heap
     /\ last' = [op |-> "addEnv", arg |-> e, before |-> heap[self.envs], threw |-> r.threw]
     /\ UNCHANGED <<self, held, nmut, calls, pulumi, input>>

RemoveEnv(key) ==
  LET r == removeEnv(heap, self.envs, key)
  IN /\ heap' = r.heap
     /\ last' = [op |-> "removeEnv", arg |-> key, before |-> heap[self.envs], res |-> r.res]
     /\ UNCHANGED <<self, held, nmut, calls, pulumi, input>>

GetEnv(key) ==
  /\ last' = [op |-> "getEnv", arg |-> key, res |-> getEnv(heap, self.envs, key)]
  /\ UNCHANGED <<self, heap, held, nmut, calls, pulumi, input>>

\* listEnvs(); the caller keeps the array returned, or reads it and drops it
ListEnvs(keep) ==
  /\ keep => Cardinality(held.snaps) < MaxSnapshots
  /\ LET r == listEnvs(heap, self.envs)
     IN /\ heap' = IF keep THEN r.heap ELSE heap
        /\ held' = IF keep THEN [held EXCEPT !.snaps = @ \cup {r.res}] ELSE held
        /\ last' = [op |-> "listEnvs", ref |-> IF keep THEN r.res ELSE 0,
                    res |-> r.heap[r.res]]
  /\ UNCHANGED <<self, nmut, calls, pulumi, input>>

ToJSON ==
  /\ last' = [op |-> "toJSON", res |-> toJSON(self, heap)]
  /\ UNCHANGED <<self, heap, held, nmut, calls, pulumi, input>>

\* The arrays the caller holds: the one it passed as config.envs, those
\* listEnvs returned to it, and those the fields internalPorts and volumes
\* of the aggregate refer to, which it passed as config.internalPorts and
\* config.volumes and reads as x.internalPorts, x.volumes and
\* x.toJSON().internalPorts.
CallerRefs ==
  ({held.init} \ {0}) \cup held.snaps
  \cup {self[f].r : f \in {g \in {"internalPorts", "volumes"} \cap DOMAIN self :
                              "r" \in DOMAIN self[g]}}

\* what the caller may push on the array r it holds: an EnvironmentVariable
\* on an array of them, a number (nothing validates it) on the array of
\* internal ports, a VolumeMount on the array of volumes
Pushable(r) ==
  IF \E f \in {"internalPorts"} \cap DOMAIN self : self[f] = [t |-> "array", r |-> r]
    THEN {Num(9090), Num(70000)}
  ELSE IF \E f \in {"volumes"} \cap DOMAIN self : self[f] = [t |-> "array", r |-> r]
    THEN {SampleVolumeMount}
  ELSE EnvIds

\* the caller changes an array it holds
Mutated(r, list) ==
  /\ r \in CallerRefs
  /\ nmut < MaxMutations
  /\ heap' = [heap EXCEPT ![r] = list]
  /\ nmut' = nmut + 1
  /\ last' = [op |-> "mutate", ref |-> r]
  /\ UNCHANGED <<self, held, calls, pulumi, input>>

CallerPush(r, e) == Mutated(r, Append(heap[r], e))

CallerPop(r) == /\ Len(heap[r]) > 0
                /\ Mutated(r, SubSeq(heap[r], 1, Len(heap[r]) - 1))

CallerReverse(r) ==
  /\ Len(heap[r]) > 1
  /\ Mutated(r, [i \in 1..Len(heap[r]) |-> heap[r][Len(heap[r]) + 1 - i]])

\* the env list of the aggregate now; a suspended call remembers the one of
\* the moment it was made (none when the serializer is called on a tree)
EnvsNow == IF self.cls = "none" THEN <<>> ELSE heap[self.envs]

\* toYAML() up to its first suspension: without Pulumi Outputs nothing but
\* the projection taken at the call is read, and the call ends with the text
StartToYAML(json, limit) ==
  LET pulumiOutputs == extractPulumiOutputs(json, <<>>)
  IN /\ IF Len(pulumiOutputs) > 0
          THEN /\ Len(calls) < limit
               /\ calls' = Append(calls, [json |-> json, pulumiOutputs |-> pulumiOutputs,
                                          pc |-> "import", envs |-> EnvsNow])
               /\ last' = [op |-> "toYAML:suspended"]
          ELSE /\ calls' = calls
               /\ last' = [op |-> "toYAML", json |-> json, path |-> "direct",
                           envs |-> EnvsNow, res |-> dumpCleaned(json)]
     /\ UNCHANGED <<self, heap, held, nmut, pulumi, input>>

\* resource.toYAML(): toYAML(this.toJSON())
ToYAMLCall == StartToYAML(toJSON(self, heap), MaxCalls)

RemoveAt(s, i) == SubSeq(s, 1, i - 1) \o SubSeq(s, i + 1, Len(s))

\* The tree json of a suspended call as it reads when the call goes on:
\* json.internalPorts is this.internalPorts, the array itself, so what was
\* pushed on it or removed from it since the call was made is in the tree;
\* envs and volumes are arrays that toJSON made for this tree alone.
TreeNow(json) ==
  IF /\ "internalPorts" \in DOMAIN self
     /\ "r" \in DOMAIN self.internalPorts
     /\ HasKey(json.o, <<"i", "n", "t", "e", "r", "n", "a", "l", "P", "o", "r", "t", "s">>)
    THEN Obj(SetProp(json.o, <<"i", "n", "t", "e", "r", "n", "a", "l", "P", "o", "r", "t", "s">>, ArrayOf(self.internalPorts, heap)))
    ELSE json

\* await importPulumi() of suspended call i: the module, or the catch block
ImportPulumi(i) ==
  /\ i \in 1..Len(calls)
  /\ calls[i].pc = "import"
  /\ pulumi' \in (IF pulumi = "unknown" THEN {"installed", "missing"} ELSE {pulumi})
  /\ IF pulumi' = "installed"
       THEN /\ calls' = [calls EXCEPT ![i].pc = "all"]
            /\ last' = [op |-> "toYAML:imported"]
       ELSE /\ calls' = RemoveAt(calls, i)
            /\ last' = [op |-> "toYAML", json |-> calls[i].json, path |-> "catch",
                        envs |-> calls[i].envs,
                        res |-> dumpCleaned(TreeNow(calls[i].json))]
  /\ UNCHANGED <<self, heap, held, nmut, input>>

\* await pulumi.all(...) of suspended call i resolves
PulumiAllResolves(i) ==
  /\ i \in 1..Len(calls)
  /\ calls[i].pc = "all"
  /\ calls' = RemoveAt(calls, i)
  /\ LET outs == calls[i].pulumiOutputs
         resolved == [k \in 1..Len(outs) |-> Resolution(outs[k].value)]
     IN last' = [op |-> "toYAML", json |-> calls[i].json, path |-> "resolved",
                 envs |-> calls[i].envs,
                 tree |-> objWithResolved(TreeNow(calls[i].json), outs, resolved),
                 res |-> dumpResolved(TreeNow(calls[i].json), outs, resolved)]
  /\ UNCHANGED <<self, heap, held, nmut, pulumi, input>>

\* the rejection of pulumi.all(...) passed on to the caller of toYAML
PulumiAllRejectsPropagates(i) ==
  /\ i \in 1..Len(calls)
  /\ calls[i].pc = "all"
  /\ calls' = RemoveAt(calls, i)
  /\ last' = [op |-> "toYAML", json |-> calls[i].json, path |-> "catch",
              envs |-> calls[i].envs, threw |-> [name |-> "Error"]]
  /\ UNCHANGED <<self, heap, held, nmut, pulumi, input>>

\* await pulumi.all(...) of suspended call i rejects: the catch block
PulumiAllRejects(i) ==
  /\ i \in 1..Len(calls)
  /\ calls[i].pc = "all"
  /\ calls' = RemoveAt(calls, i)
  /\ last' = [op |-> "toYAML", json |-> calls[i].json, path |-> "catch",
                        envs |-> calls[i].envs,
              res |-> dumpCleaned(TreeNow(calls[i].json))]
  /\ UNCHANGED <<self, heap, held, nmut, pulumi, input>>

\* the calls of the aggregate's methods, the caller reading what listEnvs
\* returns without keeping it
Next ==
  \/ \E e \in EnvIds : AddEnv(e)
  \/ \E key \in KeyArgs : RemoveEnv(key)
  \/ \E key \in KeyArgs : GetEnv(key)
  \/ ListEnvs(FALSE)
  \/ ToJSON
  \/ ToYAMLCall
  \/ \E i \in 1..MaxCalls : ImportPulumi(i)
  \/ \E i \in 1..MaxCalls : PulumiAllResolves(i)
  \/ \E i \in 1..MaxCalls : PulumiAllRejects(i)

Spec == Init /\ [][Next]_vars

\* the synchronous methods, with a caller that keeps the arrays it passed
\* and was returned, and mutates them
NextAlias ==
  \/ \E e \in EnvIds : AddEnv(e)
  \/ \E key \in KeyArgs : RemoveEnv(key)
  \/ \E key \in KeyArgs : GetEnv(key)
  \/ \E keep \in BOOLEAN : ListEnvs(keep)
  \/ ToJSON
  \/ \E r \in CallerRefs : \E e \in Pushable(r) : CallerPush(r, e)
  \/ \E r \in CallerRefs : CallerPop(r)
  \/ \E r \in CallerRefs : CallerReverse(r)

SpecAlias == Init /\ [][NextAlias]_vars

\* every combination of optional fields, with a few env lists
InitJSON ==
  /\ Constructed(Services \cup Jobs \cup Workers, {<<>>, <<1>>, <<2, 3>>})
  /\ nmut = 0
  /\ calls = <<>>
  /\ pulumi = "unknown"
  /\ input = Undefined
  /\ last = NoCall

\* new X(this.toJSON()).toJSON() for the aggregate, X being its class
RebuildAggregate ==
  /\ last' = [op |-> "rebuild", cls |-> self.cls, json |-> toJSON(self, heap)]
               @@ Rebuilt(self.cls, toJSON(self, heap))
  /\ UNCHANGED <<self, heap, held, nmut, calls, pulumi, input>>

NextJSON ==
  \/ ToJSON
  \/ RebuildAggregate
  \/ ToYAMLCall
  \/ \E i \in 1..MaxCalls : ImportPulumi(i)
  \/ \E i \in 1..MaxCalls : PulumiAllResolves(i)
  \/ \E i \in 1..MaxCalls : PulumiAllRejects(i)

SpecJSON == InitJSON /\ [][NextJSON]_vars

\* a resource whose env list may hold a Pulumi Output, with toYAML calls
\* that overlap each other, the changes of the env list, and a push of the
\* caller on the array of internal ports
InitOverlap ==
  /\ Constructed({SampleJob, [SampleWorker EXCEPT !.volumes = Undefined]}, {<<3>>, <<1, 3>>})
  /\ nmut = 0
  /\ calls = <<>>
  /\ pulumi = "unknown"
  /\ input = Undefined
  /\ last = NoCall

\* resource.toYAML() while other calls may be suspended
ToYAMLOverlapping == StartToYAML(toJSON(self, heap), MaxOverlap)

NextOverlap ==
  \/ \E e \in EnvIds : AddEnv(e)
  \/ \E key \in KeyArgs : RemoveEnv(key)
  \/ ToYAMLOverlapping
  \/ \E r \in CallerRefs \ ({held.init} \cup held.snaps) : CallerPush(r, Num(70000))
  \/ \E i \in 1..MaxOverlap : ImportPulumi(i)
  \/ \E i \in 1..MaxOverlap : PulumiAllResolves(i)
  \/ \E i \in 1..MaxOverlap : PulumiAllRejects(i)

SpecOverlap == InitOverlap /\ [][NextOverlap]_vars

(***************************************************************************)
(* Transformer calls on an input tree.                                     *)
(***************************************************************************)
\* no aggregate is involved
InitTree ==
  /\ self = [cls |-> "none"]
  /\ heap = <<>>
  /\ held = [init |-> 0, snaps |-> {}]
  /\ nmut = 0
  /\ calls = <<>>
  /\ pulumi = "missing"
  /\ input \in InputTrees
  /\ last = NoCall

CallRemoveEmpty ==
  /\ last' = [op |-> "removeEmpty", arg |-> input, res |-> removeEmpty(input)]
  /\ UNCHANGED <<self, heap, held, nmut, calls, pulumi, input>>

CallTransformKeys ==
  /\ last' = [op |-> "transformKeys", arg |-> input, res |-> transformKeys(input)]
  /\ UNCHANGED <<self, heap, held, nmut, calls, pulumi, input>>

NextTree == CallRemoveEmpty \/ CallTransformKeys

SpecTree == InitTree /\ [][NextTree]_vars

(***************************************************************************)
(* Serializer calls on a tree that may hold Pulumi-Output-like values.     *)
(***************************************************************************)
\* an Output-like value whose isSecret and then are both on the prototype
\* (a class with an accessor and a method), without own properties
ProtoOutput(id) == [t |-> "object", o |-> <<>>, p |-> {<<"i", "s", "S", "e", "c", "r", "e", "t">>, <<"t", "h", "e", "n">>}, id |-> id]

\* a promise-like value: then on the prototype, no isSecret
Thenable(id) == [t |-> "object", o |-> <<>>, p |-> {<<"t", "h", "e", "n">>}, id |-> id]

\* {isSecret: true}
SecretFlagOnly == Obj(<< <<<<"i", "s", "S", "e", "c", "r", "e", "t">>, Bool(TRUE)>> >>)

PipelineLeaves ==
  {Str(<<"3", "0", "0", "0">>), Null, MockOutput(1, <<"p", "u", "l", "u", "m", "i", "-", "v", "a", "l", "u", "e">>), MockOutput(2, <<"s", "e", "c", "r", "e", "t">>),
   ProtoOutput(3), Thenable(4), SecretFlagOnly,
   Obj(<< <<<<"i", "s", "S", "e", "c", "r", "e", "t">>, Bool(TRUE)>>, <<<<"t", "h", "e", "n">>, Num(1)>>, <<<<"v", "a", "l">>, Str(<<"r">>)>> >>)}

\* the shapes of the trees: a leaf at the root, under a key, in an array,
\* two leaves side by side, and two leaves as env values
PipelineTrees ==
  PipelineLeaves
  \cup {Obj(<< <<<<"v", "a", "l", "u", "e">>, a>> >>) : a \in PipelineLeaves}
  \cup {Arr(<<a>>) : a \in PipelineLeaves}
  \cup {Obj(<< <<<<"d", "b", "U", "r", "l">>, a>>, <<<<"a", "p", "i", "K", "e", "y">>, b>> >>) : a, b \in PipelineLeaves}
  \cup {Arr(<<a, b>>) : a, b \in PipelineLeaves}
  \cup {Obj(<< <<<<"n", "a", "m", "e">>, Str(<<"r", "e", "s", "t">>)>>,
               <<<<"e", "n", "v", "s">>, Arr(<< Obj(<< <<<<"k", "e", "y">>, Str(<<"D", "A", "T", "A", "B", "A", "S", "E", "_", "U", "R", "L">>)>>,
                                         <<<<"v", "a", "l", "u", "e">>, a>> >>),
                                  Obj(<< <<<<"k", "e", "y">>, Str(<<"P", "O", "R", "T">>)>>,
                                         <<<<"v", "a", "l", "u", "e">>, b>> >>) >>)>> >>)
          : a, b \in PipelineLeaves}

InitPipeline ==
  /\ self = [cls |-> "none"]
  /\ heap = <<>>
  /\ held = [init |-> 0, snaps |-> {}]
  /\ nmut = 0
  /\ calls = <<>>
  /\ pulumi = "unknown"
  /\ input \in PipelineTrees
  /\ last = NoCall

CallToYAMLSync ==
  /\ last' = [op |-> "toYAMLSync", arg |-> input] @@ toYAMLSync(input)
  /\ UNCHANGED <<self, heap, held, nmut, calls, pulumi, input>>

\* toYAML(input)
CallToYAML == StartToYAML(input, MaxCalls)

NextPipeline ==
  \/ CallToYAMLSync
  \/ CallToYAML
  \/ \E i \in 1..MaxCalls : ImportPulumi(i)
  \/ \E i \in 1..MaxCalls : PulumiAllResolves(i)
  \/ \E i \in 1..MaxCalls : PulumiAllRejects(i)

SpecPipeline == InitPipeline /\ [][NextPipeline]_vars

\* a suspended call resumes: it leaves its await, for the next await or
\* for its end (the steps ImportPulumi, PulumiAllResolves, PulumiAllRejects)
CallResumes ==
  \E i \in 1..Len(calls) :
    \/ calls' = RemoveAt(calls, i)
    \/ calls[i].pc = "import" /\ calls' = [calls EXCEPT ![i].pc = "all"]

\* the serializer with an import and a batch that settle: an await resumes
\* once its promise is fulfilled or rejected
SpecPipelineSettles == SpecPipeline /\ WF_calls(CallResumes)

(***************************************************************************)
(* Constructor calls on a config object.                                   *)
(***************************************************************************)
\* the object literal of the given properties; undefined stands for a
\* property that is left out
Given(pairs) == Obj(SelectSeq(pairs, LAMBDA p : p[2] # Undefined))

\* values tried for a required string field: missing, empty, blank, valid
StringInputs(valid) ==
  {Undefined, Str(<<>>), Str(<<" ">>), Str(<<"\t", " ", "\n">>),
   Str(<<"\f", " ", "", "U+2028">>), Str(valid)}

EnvironmentVariableConfigs ==
  {Given(<< <<<<"k", "e", "y">>, key>>, <<<<"v", "a", "l", "u", "e">>, value>>, <<<<"t", "y", "p", "e">>, type>>,
            <<<<"s", "c", "o", "p", "e">>, scope>> >>) :
     key \in StringInputs(<<"P", "O", "R", "T">>),
     value \in {Undefined, Null, Str(<<"3", "0", "0", "0">>), MockOutput(1, <<"p", "u", "l", "u", "m", "i", "-", "v", "a", "l", "u", "e">>)},
     type \in {Undefined, Null, Str(<<"G", "E", "N", "E", "R", "A", "L">>), Str(<<"S", "E", "C", "R", "E", "T">>), Str(<<"P", "U", "B", "L", "I", "C">>)},
     scope \in {Undefined, Str(<<"R", "U", "N", "_", "T", "I", "M", "E">>), Str(<<"B", "U", "I", "L", "D", "_", "T", "I", "M", "E">>)}}

HealthCheckConfigs ==
  {Given(<< <<<<"h", "t", "t", "p", "P", "a", "t", "h">>, httpPath>>, <<<<"p", "o", "r", "t">>, port>>,
            <<<<"i", "n", "i", "t", "i", "a", "l", "D", "e", "l", "a", "y", "S", "e", "c", "o", "n", "d", "s">>, initialDelaySeconds>>,
            <<<<"p", "e", "r", "i", "o", "d", "S", "e", "c", "o", "n", "d", "s">>, periodSeconds>>,
            <<<<"t", "i", "m", "e", "o", "u", "t", "S", "e", "c", "o", "n", "d", "s">>, timeoutSeconds>>,
            <<<<"s", "u", "c", "c", "e", "s", "s", "T", "h", "r", "e", "s", "h", "o", "l", "d">>, successThreshold>>,
            <<<<"f", "a", "i", "l", "u", "r", "e", "T", "h", "r", "e", "s", "h", "o", "l", "d">>, failureThreshold>> >>) :
     httpPath \in StringInputs(<<"/">>),
     port \in {Undefined, Num(3000), Num(0), Num(70000)},
     initialDelaySeconds \in {Undefined, Num(45), Num(0), Num(-1)},
     periodSeconds \in {Undefined, Null, Num(5)},
     timeoutSeconds \in {Undefined, Num(10)},
     successThreshold \in {Undefined, Num(2)},
     failureThreshold \in {Undefined, Num(0)}}
  \cup
  {Given(<< <<<<"h", "t", "t", "p", "P", "a", "t", "h">>, Str(<<"/", "h", "e", "a", "l", "t", "h">>)>>, <<<<"p", "o", "r", "t">>, port>>,
            <<<<"i", "n", "i", "t", "i", "a", "l", "D", "e", "l", "a", "y", "S", "e", "c", "o", "n", "d", "s">>, initialDelaySeconds>>,
            <<<<"p", "e", "r", "i", "o", "d", "S", "e", "c", "o", "n", "d", "s">>, periodSeconds>>,
            <<<<"t", "i", "m", "e", "o", "u", "t", "S", "e", "c", "o", "n", "d", "s">>, timeoutSeconds>>,
            <<<<"s", "u", "c", "c", "e", "s", "s", "T", "h", "r", "e", "s", "h", "o", "l", "d">>, successThreshold>>,
            <<<<"f", "a", "i", "l", "u", "r", "e", "T", "h", "r", "e", "s", "h", "o", "l", "d">>, failureThreshold>> >>) :
     port \in {Num(1), Num(65535), Num(65536), Num(-1), NumAndHalf(1), NumAndHalf(65535)},
     initialDelaySeconds \in {Undefined, Num(0), Num(-1), NumAndHalf(1)},
     periodSeconds \in {Undefined, Num(1), Num(0), NumAndHalf(1)},
     timeoutSeconds \in {Undefined, Num(1), NumAndHalf(1)},
     successThreshold \in {Undefined, Num(0), NumAndHalf(1)},
     failureThreshold \in {Undefined, Num(1), NumAndHalf(1)}}

DockerImageConfigs ==
  {Given(<< <<<<"r", "e", "g", "i", "s", "t", "r", "y", "T", "y", "p", "e">>, registryType>>, <<<<"r", "e", "g", "i", "s", "t", "r", "y">>, registry>>,
            <<<<"r", "e", "p", "o", "s", "i", "t", "o", "r", "y">>, repository>>, <<<<"t", "a", "g">>, tag>> >>) :
     registryType \in DockerRegistryType \cup {Undefined},
     registry \in StringInputs(<<"p", "o", "s", "t", "g", "r", "e", "s", "t", "-", "r", "e", "g", "i", "s", "t", "r", "y">>),
     repository \in StringInputs(<<"p", "o", "s", "t", "g", "r", "e", "s", "t">>),
     tag \in StringInputs(<<"v", "1", "4", ".", "2">>)}

GitHubSourceConfigs ==
  {Given(<< <<<<"r", "e", "p", "o">>, repo>>, <<<<"b", "r", "a", "n", "c", "h">>, branch>>, <<<<"s", "o", "u", "r", "c", "e", "D", "i", "r">>, sourceDir>>,
            <<<<"d", "o", "c", "k", "e", "r", "f", "i", "l", "e", "P", "a", "t", "h">>, dockerfilePath>>,
            <<<<"d", "e", "p", "l", "o", "y", "O", "n", "P", "u", "s", "h">>, deployOnPush>> >>) :
     repo \in {Undefined, Str(<<"s", "u", "p", "a", "b", "a", "s", "e", "/", "p", "o", "s", "t", "g", "r", "e", "s", "t">>), Str(<<"p", "o", "s", "t", "g", "r", "e", "s", "t">>)},
     branch \in StringInputs(<<"m", "a", "i", "n">>),
     sourceDir \in {Undefined, Str(<<"/">>), Str(<<>>), Str(<<"s", "r", "c">>)},
     dockerfilePath \in {Undefined, Str(<<"D", "o", "c", "k", "e", "r", "f", "i", "l", "e">>), Str(<<" ">>), Str(<<"D", "o", "c", "k", "e", "r", "f", "i", "l", "e", ".", "p", "r", "o", "d">>)},
     deployOnPush \in {Undefined, Null, Bool(TRUE), Bool(FALSE)}}

VolumeMountConfigs ==
  {Given(<< <<<<"n", "a", "m", "e">>, name>>, <<<<"m", "o", "u", "n", "t", "P", "a", "t", "h">>, mountPath>>, <<<<"s", "i", "z", "e">>, size>> >>) :
     name \in StringInputs(<<"d", "a", "t", "a">>),
     mountPath \in {Undefined, Str(<<"/", "d", "a", "t", "a">>), Str(<<"d", "a", "t", "a">>)},
     size \in {Undefined, Null, Str(<<>>), Str(<<"1", "G", "B">>), Str(<<"1", "0", "G", "B">>)}}

ServiceConfigs ==
  {Given(<< <<<<"n", "a", "m", "e">>, name>>, <<<<"i", "n", "s", "t", "a", "n", "c", "e", "S", "i", "z", "e", "S", "l", "u", "g">>, instanceSizeSlug>>,
            <<<<"i", "n", "s", "t", "a", "n", "c", "e", "C", "o", "u", "n", "t">>, instanceCount>>, <<<<"h", "t", "t", "p", "P", "o", "r", "t">>, httpPort>>,
            <<<<"r", "u", "n", "C", "o", "m", "m", "a", "n", "d">>, runCommand>>, <<<<"e", "n", "v", "s">>, envs>> >>) :
     name \in StringInputs(<<"t", "e", "s", "t">>),
     instanceSizeSlug \in {Undefined, Str(<<"b", "a", "s", "i", "c", "-", "x", "x", "s">>), Str(<<"h", "u", "g", "e">>)},
     instanceCount \in {Undefined, Num(1), Num(-1), Num(0), NumAndHalf(1)},
     httpPort \in {Undefined, Num(3000), Num(0), Num(1), Num(-1), Num(65535), Num(65536),
                   NumAndHalf(1)},
     runCommand \in {Undefined, Str(<<>>)},
     envs \in {Undefined, Arr(<<>>)}}

JobConfigs ==
  {Given(<< <<<<"n", "a", "m", "e">>, name>>, <<<<"k", "i", "n", "d">>, kind>>, <<<<"r", "u", "n", "C", "o", "m", "m", "a", "n", "d">>, runCommand>>,
            <<<<"i", "n", "s", "t", "a", "n", "c", "e", "S", "i", "z", "e", "S", "l", "u", "g">>, instanceSizeSlug>>,
            <<<<"i", "n", "s", "t", "a", "n", "c", "e", "C", "o", "u", "n", "t">>, instanceCount>> >>) :
     name \in StringInputs(<<"m", "i", "g", "r", "a", "t", "e">>),
     kind \in {Undefined, Str(<<"P", "R", "E", "_", "D", "E", "P", "L", "O", "Y">>), Str(<<"D", "E", "P", "L", "O", "Y">>)},
     runCommand \in StringInputs(<<"n", "p", "m", " ", "r", "u", "n", " ", "m", "i", "g", "r", "a", "t", "e">>),
     instanceSizeSlug \in {Undefined, Str(<<"b", "a", "s", "i", "c", "-", "x", "x", "s">>)},
     instanceCount \in {Undefined, Num(1), Num(0), NumAndHalf(1)}}

WorkerConfigs ==
  {Given(<< <<<<"n", "a", "m", "e">>, name>>, <<<<"i", "n", "s", "t", "a", "n", "c", "e", "S", "i", "z", "e", "S", "l", "u", "g">>, instanceSizeSlug>>,
            <<<<"i", "n", "s", "t", "a", "n", "c", "e", "C", "o", "u", "n", "t">>, instanceCount>>, <<<<"r", "u", "n", "C", "o", "m", "m", "a", "n", "d">>, runCommand>>,
            <<<<"i", "n", "t", "e", "r", "n", "a", "l", "P", "o", "r", "t", "s">>, internalPorts>> >>) :
     name \in StringInputs(<<"q", "u", "e", "u", "e">>),
     instanceSizeSlug \in {Undefined, Str(<<"b", "a", "s", "i", "c", "-", "x", "x", "s">>)},
     instanceCount \in {Undefined, Num(2), NumAndHalf(1)},
     runCommand \in {Undefined, Str(<<"n", "p", "m", " ", "s", "t", "a", "r", "t">>)},
     internalPorts \in {Undefined, Arr(<<Num(8081)>>), Arr(<<Num(8081), Num(0)>>),
                        Arr(<<Num(1), Num(65535)>>), Arr(<<Num(65536)>>),
                        Arr(<<Num(-1)>>), Arr(<<Num(8081), NumAndHalf(1)>>)}}

\* the constructor calls of the model: a class and the config passed to it
ConstructorCalls ==
  [cls : {"EnvironmentVariable"}, config : EnvironmentVariableConfigs]
  \cup [cls : {"HealthCheck"}, config : HealthCheckConfigs]
  \cup [cls : {"DockerImage"}, config : DockerImageConfigs]
  \cup [cls : {"GitHubSource"}, config : GitHubSourceConfigs]
  \cup [cls : {"VolumeMount"}, config : VolumeMountConfigs]
  \cup [cls : {"Service"}, config : ServiceConfigs]
  \cup [cls : {"Job"}, config : JobConfigs]
  \cup [cls : {"Worker"}, config : WorkerConfigs]

InitEntity ==
  /\ self = [cls |-> "none"]
  /\ heap = <<>>
  /\ held = [init |-> 0, snaps |-> {}]
  /\ nmut = 0
  /\ calls = <<>>
  /\ pulumi = "unknown"
  /\ input \in ConstructorCalls
  /\ last = NoCall

\* x = new cls(config), and x.toJSON() when it was built
Construct ==
  /\ LET built == New(input.cls, input.config)
     IN last' = IF built.threw = NoError
                  THEN [op |-> "new", cls |-> input.cls, config |-> input.config,
                        threw |-> NoError, this |-> built.this, json |-> ToJSONOf(built)]
                  ELSE [op |-> "new", cls |-> input.cls, config |-> input.config,
                        threw |-> built.threw]
  /\ UNCHANGED <<self, heap, held, nmut, calls, pulumi, input>>

\* new cls(x.toJSON()).toJSON() for the object x built last
Rebuild ==
  /\ last.op = "new"
  /\ last.threw = NoError
  /\ last' = [op |-> "rebuild", cls |-> last.cls, json |-> last.json]
               @@ Rebuilt(last.cls, last.json)
  /\ UNCHANGED <<self, heap, held, nmut, calls, pulumi, input>>

NextEntity == Construct \/ Rebuild

SpecEntity == InitEntity /\ [][NextEntity]_vars

(***************************************************************************)
(* Properties of the env list of an aggregate (checked under Spec).        *)
(***************************************************************************)
KeysOf(list) == {Envs[list[i]].key : i \in 1..Len(list)}

\* the env list of the aggregate
EnvList == heap[self.envs]

\* C1: addEnv of an EnvironmentVariable whose key is already in the env
\* list fails with a failure of field path `key`, and leaves the env list as
\* it was (same entries, same order); for Service, Job and Worker.
C1_AddEnvDuplicateFails ==
  (last.op = "addEnv" /\ Envs[last.arg].key \in KeysOf(last.before)) =>
    /\ last.threw.name = "ZodError"
    /\ last.threw.issues[1].path = <<"key">>
    /\ EnvList = last.before

C1_Witness ==
  /\ last.op = "addEnv"
  /\ Envs[last.arg].key \in KeysOf(last.before)
  /\ last.threw.name = "ZodError"
  /\ self.cls = "Job"
  /\ Len(EnvList) = 2

\* C2: in every reachable state of an aggregate, from construction on, no
\* two entries of its env list share a key.
C2_NoDuplicateKeys ==
  \A i, j \in 1..Len(EnvList) : i # j => Envs[EnvList[i]].key # Envs[EnvList[j]].key

\* the positions of `list` that hold key
Positions(list, key) == {i \in 1..Len(list) : Envs[list[i]].key = key}

\* `list` without its position i
Without(list, i) == [k \in 1..(Len(list) - 1) |-> IF k < i THEN list[k] ELSE list[k + 1]]

\* C3: removeEnv(k) returns true exactly when an entry with key k existed;
\* then the first such entry alone is removed, the others keeping their
\* order; when it returns false the env list is unchanged.
C3_RemoveEnvRemovesFirst ==
  last.op = "removeEnv" =>
    LET at == Positions(last.before, last.arg)
    IN /\ last.res = (at # {})
       /\ last.res =>
            EnvList = Without(last.before, CHOOSE i \in at : \A j \in at : i <= j)
       /\ ~last.res => EnvList = last.before

C3_Witness ==
  /\ last.op = "removeEnv"
  /\ last.res
  /\ Cardinality(Positions(last.before, last.arg)) = 2
  /\ Len(EnvList) = 2

\* C4: whenever removeEnv(k) returns true, the key is gone: getEnv(k) then
\* returns undefined and listEnvs() holds no entry with key k.
C4_RemovedKeyIsGone ==
  (last.op = "removeEnv" /\ last.res) =>
    /\ getEnv(heap, self.envs, last.arg) = 0
    /\ last.arg \notin KeysOf(listEnvs(heap, self.envs).heap[listEnvs(heap, self.envs).res])

\* C5: the array listEnvs returns is a snapshot: when the caller changes it,
\* the env list, getEnv and toJSON of the aggregate stay as they were, and
\* addEnv and removeEnv leave the arrays returned earlier as they were.
C5_ListEnvsIsSnapshot ==
  [][/\ (last'.op = "mutate" /\ last'.ref \in held.snaps) =>
          /\ heap'[self.envs] = heap[self.envs]
          /\ toJSON(self, heap') = toJSON(self, heap)
          /\ \A key \in KeyArgs :
               getEnv(heap', self.envs, key) = getEnv(heap, self.envs, key)
     /\ (last'.op \in {"addEnv", "removeEnv"}) =>
          \A r \in held.snaps : heap'[r] = heap[r]]_vars

C5_Witness ==
  /\ last.op = "mutate"
  /\ last.ref \in held.snaps
  /\ heap[last.ref] # EnvList
  /\ Len(EnvList) > 0

\* C6: addEnv(env) with a key that is not in the env list succeeds and
\* appends: the list is the one before followed by env, and getEnv(env.key)
\* returns that same instance.
C6_AddEnvAppends ==
  (last.op = "addEnv" /\ Envs[last.arg].key \notin KeysOf(last.before)) =>
    /\ last.threw = NoError
    /\ listEnvs(heap, self.envs).heap[listEnvs(heap, self.envs).res]
         = Append(last.before, last.arg)
    /\ getEnv(heap, self.envs, Envs[last.arg].key) = last.arg

C6_Witness ==
  /\ last.op = "addEnv"
  /\ last.threw = NoError
  /\ Len(last.before) > 0
  /\ EnvList = Append(last.before, last.arg)
  /\ last.arg = 2

(***************************************************************************)
(* Properties of the projections (checked under SpecJSON).                 *)
(***************************************************************************)
\* C7: toYAML of a Service built from only name, instanceSizeSlug and
\* instanceCount, with an empty env list, emits exactly the top-level keys
\* name, instance_size_slug, instance_count, envs, in that order, envs being
\* an empty list.
C7_MinimalServiceYamlHasEnvs ==
  (last.op = "toYAML" /\ self = [MinimalService EXCEPT !.envs = self.envs]
     /\ EnvList = <<>>) =>
    /\ Keys(last.res.yaml.o)
         = << <<"n", "a", "m", "e">>, <<"i", "n", "s", "t", "a", "n", "c", "e", "_", "s", "i", "z", "e", "_", "s", "l", "u", "g">>, <<"i", "n", "s", "t", "a", "n", "c", "e", "_", "c", "o", "u", "n", "t">>, <<"e", "n", "v", "s">> >>
    /\ Get(last.res.yaml.o, <<"e", "n", "v", "s">>) = Arr(<<>>)

\* key is in the projection exactly when the field is not undefined, and
\* then holds `value`
OptionalField(json, key, field, value) ==
  /\ HasKey(json, key) <=> field # Undefined
  /\ field # Undefined => Get(json, key) = value

\* C8: toJSON of an aggregate always holds name, the required fields and
\* envs (the projections of the env list in list order, [] when it is
\* empty), holds each optional field exactly when it is not undefined, and
\* holds volumes exactly when the volumes list is defined and not empty.
C8_ToJSONFields ==
  last.op = "toJSON" =>
    LET json == last.res.o
        source == IF self.source = Undefined THEN Undefined
                  ELSE IF self.source.cls = "DockerImage"
                    THEN DockerImageToJSON(self.source)
                    ELSE GitHubSourceToJSON(self.source)
        volumes == HasKey(json, <<"v", "o", "l", "u", "m", "e", "s">>)
                     <=> (self.volumes # Undefined /\ Len(ArrayOf(self.volumes, heap).a) >= 1)
    IN /\ Get(json, <<"n", "a", "m", "e">>) = self.name
       /\ HasKey(json, <<"e", "n", "v", "s">>)
       /\ Get(json, <<"e", "n", "v", "s">>).t = "array"
       /\ Len(Get(json, <<"e", "n", "v", "s">>).a) = Len(EnvList)
       /\ \A i \in 1..Len(EnvList) :
            Get(json, <<"e", "n", "v", "s">>).a[i] = EnvironmentVariableToJSON(EnvList[i])
       /\ OptionalField(json, <<"s", "o", "u", "r", "c", "e">>, self.source, source)
       /\ self.cls = "Service" =>
            /\ Get(json, <<"i", "n", "s", "t", "a", "n", "c", "e", "S", "i", "z", "e", "S", "l", "u", "g">>) = self.instanceSizeSlug
            /\ Get(json, <<"i", "n", "s", "t", "a", "n", "c", "e", "C", "o", "u", "n", "t">>) = self.instanceCount
            /\ OptionalField(json, <<"h", "t", "t", "p", "P", "o", "r", "t">>, self.httpPort, self.httpPort)
            /\ OptionalField(json, <<"i", "n", "t", "e", "r", "n", "a", "l", "P", "o", "r", "t", "s">>, self.internalPorts,
                             ArrayOf(self.internalPorts, heap))
            /\ OptionalField(json, <<"h", "e", "a", "l", "t", "h", "C", "h", "e", "c", "k">>, self.healthCheck,
                             IF self.healthCheck = Undefined THEN Undefined
                             ELSE HealthCheckToJSON(self.healthCheck))
            /\ OptionalField(json, <<"r", "u", "n", "C", "o", "m", "m", "a", "n", "d">>, self.runCommand, self.runCommand)
            /\ volumes
            /\ ~HasKey(json, <<"k", "i", "n", "d">>)
       /\ self.cls = "Worker" =>
            /\ Get(json, <<"i", "n", "s", "t", "a", "n", "c", "e", "S", "i", "z", "e", "S", "l", "u", "g">>) = self.instanceSizeSlug
            /\ Get(json, <<"i", "n", "s", "t", "a", "n", "c", "e", "C", "o", "u", "n", "t">>) = self.instanceCount
            /\ OptionalField(json, <<"i", "n", "t", "e", "r", "n", "a", "l", "P", "o", "r", "t", "s">>, self.internalPorts,
                             ArrayOf(self.internalPorts, heap))
            /\ OptionalField(json, <<"r", "u", "n", "C", "o", "m", "m", "a", "n", "d">>, self.runCommand, self.runCommand)
            /\ volumes
            /\ ~HasKey(json, <<"k", "i", "n", "d">>) /\ ~HasKey(json, <<"h", "t", "t", "p", "P", "o", "r", "t">>)
            /\ ~HasKey(json, <<"h", "e", "a", "l", "t", "h", "C", "h", "e", "c", "k">>)
       /\ self.cls = "Job" =>
            /\ Get(json, <<"k", "i", "n", "d">>) = self.kind
            /\ Get(json, <<"r", "u", "n", "C", "o", "m", "m", "a", "n", "d">>) = self.runCommand
            /\ OptionalField(json, <<"i", "n", "s", "t", "a", "n", "c", "e", "S", "i", "z", "e", "S", "l", "u", "g">>, self.instanceSizeSlug,
                             self.instanceSizeSlug)
            /\ OptionalField(json, <<"i", "n", "s", "t", "a", "n", "c", "e", "C", "o", "u", "n", "t">>, self.instanceCount, self.instanceCount)
            /\ ~HasKey(json, <<"v", "o", "l", "u", "m", "e", "s">>) /\ ~HasKey(json, <<"h", "t", "t", "p", "P", "o", "r", "t">>)
            /\ ~HasKey(json, <<"h", "e", "a", "l", "t", "h", "C", "h", "e", "c", "k">>) /\ ~HasKey(json, <<"i", "n", "t", "e", "r", "n", "a", "l", "P", "o", "r", "t", "s">>)

C8_Witness ==
  /\ last.op = "toJSON"
  /\ self.cls = "Service"
  /\ ArrayOf(self.volumes, heap) = Arr(<<>>)
  /\ self.runCommand = Str(<<>>)
  /\ self.httpPort = Undefined
  /\ self.source # Undefined
  /\ Len(EnvList) = 2
  /\ ~HasKey(last.res.o, <<"v", "o", "l", "u", "m", "e", "s">>)
  /\ HasKey(last.res.o, <<"r", "u", "n", "C", "o", "m", "m", "a", "n", "d">>)

(***************************************************************************)
(* Properties of the transformer functions (checked under SpecTree).       *)
(***************************************************************************)
IsScalar(v) == v.t \in {"number", "boolean", "string"}

\* the values directly inside a container
Children(v) ==
  IF v.t = "array" THEN v.a
  ELSE IF v.t = "object" THEN [i \in 1..Len(v.o) |-> v.o[i][2]]
  ELSE <<>>

\* a scalar, or a container with at least one surviving descendant
RECURSIVE Survives(_)
Survives(v) == IsScalar(v) \/ \E i \in 1..Len(Children(v)) : Survives(Children(v)[i])

SurvivingEntry(e) == Survives(e[2])

\* a surviving value without the positions that do not survive
RECURSIVE Kept(_)
Kept(v) ==
  IF v.t = "array" THEN
    LET s == SelectSeq(v.a, Survives) IN Arr([i \in 1..Len(s) |-> Kept(s[i])])
  ELSE IF v.t = "object" THEN
    LET s == SelectSeq(v.o, SurvivingEntry)
    IN Obj([i \in 1..Len(s) |-> <<s[i][1], Kept(s[i][2])>>])
  ELSE v

\* C9: removeEmpty keeps a value iff it is a scalar or a container with a
\* surviving descendant, keeps the survivors in their order and drops all
\* else; 0, false and "" survive; {a: undefined, b: null, c: [], d: {e: null},
\* f: 0, g: false} prunes to {f: 0, g: false}.
C9_RemoveEmptyPrunes ==
  last.op = "removeEmpty" =>
    /\ last.res = (IF Survives(last.arg) THEN Kept(last.arg) ELSE Undefined)
    /\ IsScalar(last.arg) => last.res = last.arg
    /\ last.arg = PruneExample =>
         last.res = Obj(<< <<<<"f">>, Num(0)>>, <<<<"g">>, Bool(FALSE)>> >>)

C9_Witness ==
  /\ last.op = "removeEmpty"
  /\ last.arg = PruneExample
  /\ last.res = Obj(<< <<<<"f">>, Num(0)>>, <<<<"g">>, Bool(FALSE)>> >>)

\* s is str with each capital replaced by "_" and its lowercase form: s has
\* no capital, and the character at position i of str sits in s after one
\* extra position per capital before it
IsSnakeOf(str, s) ==
  LET capsBefore(i) == Cardinality({j \in 1..(i - 1) : IsUpper(str[j])})
  IN /\ Len(s) = Len(str) + capsBefore(Len(str) + 1)
     /\ \A i \in 1..Len(str) :
          IF IsUpper(str[i])
            THEN /\ s[i + capsBefore(i)] = "_"
                 /\ \E n \in 1..26 : /\ UpperCase[n] = str[i]
                                     /\ s[i + capsBefore(i) + 1] = LowerCase[n]
            ELSE s[i + capsBefore(i)] = str[i]

\* r is v with its keys renamed at every depth: arrays keep their length and
\* order, leaves are unchanged, and an object has one key per distinct
\* renamed key, in order of first occurrence, holding the renamed value of
\* the last property that was given that key
RECURSIVE IsRenamed(_, _)
IsRenamed(v, r) ==
  IF v.t = "array" THEN
    /\ r.t = "array"
    /\ Len(r.a) = Len(v.a)
    /\ \A i \in 1..Len(v.a) : IsRenamed(v.a[i], r.a[i])
  ELSE IF v.t = "object" THEN
    /\ r.t = "object"
    /\ \A i \in 1..Len(v.o) : \E j \in 1..Len(r.o) : IsSnakeOf(v.o[i][1], r.o[j][1])
    /\ \A j, k \in 1..Len(r.o) : j # k => r.o[j][1] # r.o[k][1]
    /\ \A j \in 1..Len(r.o) :
         \E i \in 1..Len(v.o) :
           /\ IsSnakeOf(v.o[i][1], r.o[j][1])
           /\ \A m \in (i + 1)..Len(v.o) : ~IsSnakeOf(v.o[m][1], r.o[j][1])
           /\ IsRenamed(v.o[i][2], r.o[j][2])
    /\ \A j, k \in 1..Len(r.o) :
         j < k => \E i \in 1..Len(v.o) :
                    /\ IsSnakeOf(v.o[i][1], r.o[j][1])
                    /\ \A m \in 1..i : ~IsSnakeOf(v.o[m][1], r.o[k][1])
  ELSE r = v

RenameExampleResult ==
  Obj(<< <<<<"i", "n", "s", "t", "a", "n", "c", "e", "_", "s", "i", "z", "e", "_", "s", "l", "u", "g">>, Str(<<"p", "r", "o", "f", "e", "s", "s", "i", "o", "n", "a", "l", "-", "x", "s">>)>>,
         <<<<"s", "o", "u", "r", "c", "e">>, Obj(<< <<<<"r", "e", "g", "i", "s", "t", "r", "y", "_", "t", "y", "p", "e">>, Str(<<"D", "O", "C", "K", "E", "R", "_", "H", "U", "B">>)>> >>)>>,
         <<<<"e", "n", "v", "s">>, Arr(<< Obj(<< <<<<"k", "e", "y">>, Str(<<"P", "O", "R", "T">>)>>,
                                   <<<<"s", "c", "o", "p", "e">>, Str(<<"R", "U", "N", "_", "T", "I", "M", "E">>)>> >>),
                            Obj(<< <<<<"d", "e", "p", "l", "o", "y", "_", "o", "n", "_", "p", "u", "s", "h">>, Bool(FALSE)>> >>) >>)>>,
         <<<<"_", "h", "_", "t", "_", "t", "_", "p", "_", "p", "a", "t", "h">>, Str(<<"/">>)>> >>)

\* C10: transformKeys replaces each capital of every object key, at every
\* depth and inside arrays, by "_" and its lowercase form (each capital of a
\* run separately), and leaves leaf values, array lengths and element order
\* unchanged.
C10_TransformKeysRenames ==
  last.op = "transformKeys" =>
    /\ IsRenamed(last.arg, last.res)
    /\ last.arg = RenameExample => last.res = RenameExampleResult

C10_Witness ==
  /\ last.op = "transformKeys"
  /\ last.arg = RenameExample
  /\ last.res = RenameExampleResult

(***************************************************************************)
(* Properties of the YAML key order, of the serializer and of the          *)
(* constructors.                                                           *)
(***************************************************************************)
\* a Service built with httpPort, a DockerImage source, a HealthCheck and
\* at least one env var, and no other optional field
IsQuickStartService ==
  /\ self.cls = "Service"
  /\ self.httpPort # Undefined
  /\ self.healthCheck # Undefined
  /\ self.source # Undefined /\ self.source.cls = "DockerImage"
  /\ self.internalPorts = Undefined
  /\ self.runCommand = Undefined
  /\ self.volumes = Undefined
  /\ Len(EnvList) >= 1

\* C11: toYAML of a Service built with httpPort, a DockerImage source, a
\* HealthCheck and at least one env var emits its top-level keys in the
\* order name, instance_size_slug, instance_count, http_port, source,
\* health_check, envs.
C11_QuickStartKeyOrder ==
  (last.op = "toYAML" /\ IsQuickStartService) =>
    Keys(last.res.yaml.o)
      = << <<"n", "a", "m", "e">>, <<"i", "n", "s", "t", "a", "n", "c", "e", "_", "s", "i", "z", "e", "_", "s", "l", "u", "g">>, <<"i", "n", "s", "t", "a", "n", "c", "e", "_", "c", "o", "u", "n", "t">>, <<"h", "t", "t", "p", "_", "p", "o", "r", "t">>,
           <<"s", "o", "u", "r", "c", "e">>, <<"h", "e", "a", "l", "t", "h", "_", "c", "h", "e", "c", "k">>, <<"e", "n", "v", "s">> >>

\* a non-null object having both an isSecret property and a then property
IsDeferred(v) ==
  /\ v.t = "object"
  /\ \/ \E i \in 1..Len(v.o) : v.o[i][1] = <<"i", "s", "S", "e", "c", "r", "e", "t">>
     \/ ("p" \in DOMAIN v /\ <<"i", "s", "S", "e", "c", "r", "e", "t">> \in v.p)
  /\ \/ \E i \in 1..Len(v.o) : v.o[i][1] = <<"t", "h", "e", "n">>
     \/ ("p" \in DOMAIN v /\ <<"t", "h", "e", "n">> \in v.p)

RECURSIVE HoldsDeferred(_)
\* v is a deferred value, or holds one at some depth as an object value or
\* an array element
HoldsDeferred(v) ==
  \/ IsDeferred(v)
  \/ v.t = "array" /\ \E i \in 1..Len(v.a) : HoldsDeferred(v.a[i])
  \/ v.t = "object" /\ \E i \in 1..Len(v.o) : HoldsDeferred(v.o[i][2])

\* C12: toYAMLSync fails, producing no text, exactly when its input holds a
\* deferred value at any depth (the root, an object value or an array
\* element); on every other tree it returns text and raises nothing.
C12_SyncFailsOnDeferred ==
  last.op = "toYAMLSync" =>
    /\ last.threw # NoError <=> HoldsDeferred(last.arg)
    /\ last.threw # NoError => "res" \notin DOMAIN last
    /\ last.threw = NoError => ("res" \in DOMAIN last /\ "yaml" \in DOMAIN last.res)

C12_Witness ==
  /\ last.op = "toYAMLSync"
  /\ last.threw = PulumiOutputsFoundError
  /\ "res" \notin DOMAIN last
  /\ last.arg.t = "object" /\ HasKey(last.arg.o, <<"e", "n", "v", "s">>)
  /\ LET envs == Get(last.arg.o, <<"e", "n", "v", "s">>).a
     IN /\ ~IsDeferred(Get(envs[1].o, <<"v", "a", "l", "u", "e">>))
        /\ IsDeferred(Get(envs[2].o, <<"v", "a", "l", "u", "e">>))

RECURSIVE DeferredIn(_)
RECURSIVE DeferredInAll(_, _)
\* the deferred values of tree v, in traversal order
DeferredIn(v) ==
  IF IsDeferred(v) THEN <<v>>
  ELSE IF v.t = "array" THEN DeferredInAll(v.a, 1)
  ELSE IF v.t = "object" THEN DeferredInAll([i \in 1..Len(v.o) |-> v.o[i][2]], 1)
  ELSE <<>>

DeferredInAll(vs, i) ==
  IF i > Len(vs) THEN <<>> ELSE DeferredIn(vs[i]) \o DeferredInAll(vs, i + 1)

\* C13: when the tree holds a deferred value and the resolution backend
\* cannot be loaded, toYAML completes with text and without error, and the
\* tree handed to the text renderer still holds every deferred value of the
\* input, unresolved and in the same order: none is dropped by pruning or
\* replaced.
C13_UnresolvedDeferredKept ==
  (last.op = "toYAML" /\ last.path = "catch" /\ pulumi = "missing") =>
    /\ "yaml" \in DOMAIN last.res
    /\ DeferredIn(last.res.yaml) = DeferredIn(last.json)

RECURSIVE Substituted(_, _)
\* tree t is tree v with every deferred value replaced by the backend's
\* result for it, and everything else as it was
Substituted(v, t) ==
  IF IsDeferred(v) THEN t = Resolution(v)
  ELSE IF v.t = "array" THEN
    /\ t.t = "array"
    /\ Len(t.a) = Len(v.a)
    /\ \A i \in 1..Len(v.a) : Substituted(v.a[i], t.a[i])
  ELSE IF v.t = "object" THEN
    /\ t.t = "object"
    /\ Len(t.o) = Len(v.o)
    /\ \A i \in 1..Len(v.o) :
         /\ t.o[i][1] = v.o[i][1]
         /\ Substituted(v.o[i][2], t.o[i][2])
  ELSE t = v

\* C14: when the backend resolves the batch, the tree that toYAML prunes,
\* renames and renders holds no deferred value: every position of a
\* deferred value holds the backend's result for it, the same at each
\* position of one deferred value, everything else is unchanged, and the
\* input tree is as it was.
C14_ResolvedTreeSubstituted ==
  (last.op = "toYAML" /\ last.path = "resolved") =>
    /\ DeferredIn(last.tree) = <<>>
    /\ Substituted(last.json, last.tree)
    /\ last.res = dumpCleaned(last.tree)
    /\ self.cls = "none" => last.json = input

C14_Witness ==
  /\ last.op = "toYAML" /\ last.path = "resolved"
  /\ input = Obj(<< <<<<"n", "a", "m", "e">>, Str(<<"r", "e", "s", "t">>)>>,
                    <<<<"e", "n", "v", "s">>, Arr(<< Obj(<< <<<<"k", "e", "y">>, Str(<<"D", "A", "T", "A", "B", "A", "S", "E", "_", "U", "R", "L">>)>>,
                                              <<<<"v", "a", "l", "u", "e">>, MockOutput(1, <<"p", "u", "l", "u", "m", "i", "-", "v", "a", "l", "u", "e">>)>> >>),
                                       Obj(<< <<<<"k", "e", "y">>, Str(<<"P", "O", "R", "T">>)>>,
                                              <<<<"v", "a", "l", "u", "e">>, MockOutput(1, <<"p", "u", "l", "u", "m", "i", "-", "v", "a", "l", "u", "e">>)>> >>) >>)>> >>)
  /\ last.tree = Obj(<< <<<<"n", "a", "m", "e">>, Str(<<"r", "e", "s", "t">>)>>,
                        <<<<"e", "n", "v", "s">>, Arr(<< Obj(<< <<<<"k", "e", "y">>, Str(<<"D", "A", "T", "A", "B", "A", "S", "E", "_", "U", "R", "L">>)>>,
                                                  <<<<"v", "a", "l", "u", "e">>, Str(<<"p", "u", "l", "u", "m", "i", "-", "v", "a", "l", "u", "e">>)>> >>),
                                           Obj(<< <<<<"k", "e", "y">>, Str(<<"P", "O", "R", "T">>)>>,
                                                  <<<<"v", "a", "l", "u", "e">>, Str(<<"p", "u", "l", "u", "m", "i", "-", "v", "a", "l", "u", "e">>)>> >>) >>)>> >>)

\* C15: every failure raised by a constructor on invalid input, by addEnv
\* on a key collision and by toYAMLSync on an unresolved deferred value is a
\* ValidationError carrying field, value and constraint.
C15_SingleErrorKind ==
  ("threw" \in DOMAIN last /\ last.threw # NoError) =>
    /\ last.threw.name = "ValidationError"
    /\ {"field", "value", "constraint"} \subseteq DOMAIN last.threw

\* the required string fields of each class: the key in the config and the
\* name in a field path
RequiredStrings(cls) ==
  CASE cls = "EnvironmentVariable" -> {<<<<"k", "e", "y">>, "key">>}
    [] cls = "HealthCheck" -> {<<<<"h", "t", "t", "p", "P", "a", "t", "h">>, "httpPath">>}
    [] cls = "DockerImage" -> {<<<<"r", "e", "p", "o", "s", "i", "t", "o", "r", "y">>, "repository">>, <<<<"t", "a", "g">>, "tag">>}
    [] cls = "GitHubSource" -> {<<<<"b", "r", "a", "n", "c", "h">>, "branch">>}
    [] cls = "VolumeMount" -> {<<<<"n", "a", "m", "e">>, "name">>}
    [] cls = "Job" -> {<<<<"n", "a", "m", "e">>, "name">>, <<<<"r", "u", "n", "C", "o", "m", "m", "a", "n", "d">>, "runCommand">>}
    [] OTHER -> {<<<<"n", "a", "m", "e">>, "name">>}

\* missing, empty or made of whitespace only
IsBlank(v) ==
  \/ v = Undefined
  \/ v.t = "string" /\ \A i \in 1..Len(v.s) : v.s[i] \in Whitespace

\* C16 as stated: construction of an entity or aggregate with one of its
\* required string fields (EnvironmentVariable.key, HealthCheck.httpPath,
\* DockerImage.repository and tag, GitHubSource.branch, VolumeMount.name,
\* the aggregate name, Job.runCommand) missing, empty or whitespace-only
\* fails, produces no object, and the failure reports that field's name as
\* a field path.
C16_BlankFieldAlwaysReported ==
  last.op = "new" =>
    \A f \in RequiredStrings(last.cls) :
      IsBlank(Get(last.config.o, f[1])) =>
        /\ last.threw # NoError
        /\ "this" \notin DOMAIN last
        /\ \E i \in 1..Len(last.threw.issues) : last.threw.issues[i].path = <<f[2]>>

\* C16: construction of an entity or aggregate with one of its required
\* string fields missing, empty or whitespace-only fails and produces no
\* object.  The failure reports that field's name as a field path, except
\* that a blank Job.runCommand is not reported when the base constructor
\* rejects the config first (name or envs invalid): then the failure holds
\* the base constructor's issues alone.  When the config is otherwise
\* valid, that field's name is the only field path of the failure.
C16_BlankRequiredStringFails ==
  last.op = "new" =>
    \A f \in RequiredStrings(last.cls) :
      IsBlank(Get(last.config.o, f[1])) =>
        /\ last.threw # NoError
        /\ "this" \notin DOMAIN last
        /\ Len(last.threw.issues) >= 1
        /\ IF last.cls = "Job" /\ f[2] = "runCommand" /\ BaseIssues(last.config) # <<>>
             THEN /\ last.threw.issues = BaseIssues(last.config)
                  /\ \A i \in 1..Len(last.threw.issues) :
                       last.threw.issues[i].path # <<"runCommand">>
             ELSE \E i \in 1..Len(last.threw.issues) :
                    last.threw.issues[i].path = <<f[2]>>
        /\ New(last.cls, Obj(SetProp(last.config.o, f[1], Str(<<"x">>)))).threw = NoError =>
             \A i \in 1..Len(last.threw.issues) : last.threw.issues[i].path = <<f[2]>>

C16_Witness ==
  /\ last.op = "new"
  /\ last.cls = "Job"
  /\ Get(last.config.o, <<"n", "a", "m", "e">>) = Str(<<"m", "i", "g", "r", "a", "t", "e">>)
  /\ Get(last.config.o, <<"k", "i", "n", "d">>) = Str(<<"P", "R", "E", "_", "D", "E", "P", "L", "O", "Y">>)
  /\ Get(last.config.o, <<"r", "u", "n", "C", "o", "m", "m", "a", "n", "d">>) = Str(<<"\t", " ", "\n">>)
  /\ "this" \notin DOMAIN last
  /\ last.threw = ZodError(<<Issue("custom", "runCommand", <<"R", "u", "n", " ", "c", "o", "m", "m", "a", "n", "d", " ", "m", "u", "s", "t", " ", "b", "e", " ", "n", "o", "n", "-", "e", "m", "p", "t", "y">>)>>)

\* C17: new DockerImage with registryType DOCR and registry absent, empty
\* or whitespace-only fails, with field path registry whenever repository
\* and tag are valid; with registryType DOCKER_HUB or GHCR and registry
\* absent it succeeds; every constructed DockerImage of registryType DOCR
\* has a registry that is present and not blank.
C17_DocrNeedsRegistry ==
  (last.op = "new" /\ last.cls = "DockerImage") =>
    LET registryType == Get(last.config.o, <<"r", "e", "g", "i", "s", "t", "r", "y", "T", "y", "p", "e">>)
        registry == Get(last.config.o, <<"r", "e", "g", "i", "s", "t", "r", "y">>)
        valid == /\ ~IsBlank(Get(last.config.o, <<"r", "e", "p", "o", "s", "i", "t", "o", "r", "y">>))
                 /\ ~IsBlank(Get(last.config.o, <<"t", "a", "g">>))
    IN /\ (registryType = Str(<<"D", "O", "C", "R">>) /\ IsBlank(registry)) =>
            /\ last.threw # NoError
            /\ "this" \notin DOMAIN last
            /\ valid =>
                 /\ Len(last.threw.issues) >= 1
                 /\ \A i \in 1..Len(last.threw.issues) :
                      last.threw.issues[i].path = <<"registry">>
       /\ (registryType \in {Str(<<"D", "O", "C", "K", "E", "R", "_", "H", "U", "B">>), Str(<<"G", "H", "C", "R">>)}
             /\ registry = Undefined /\ valid) =>
            /\ last.threw = NoError
            /\ last.this.registry = Undefined
       /\ (last.threw = NoError /\ last.this.registryType = Str(<<"D", "O", "C", "R">>)) =>
            ~IsBlank(last.this.registry)

C17_Witness ==
  /\ last.op = "new"
  /\ last.cls = "DockerImage"
  /\ last.config = Obj(<< <<<<"r", "e", "g", "i", "s", "t", "r", "y", "T", "y", "p", "e">>, Str(<<"D", "O", "C", "R">>)>>,
                          <<<<"r", "e", "p", "o", "s", "i", "t", "o", "r", "y">>, Str(<<"p", "o", "s", "t", "g", "r", "e", "s", "t">>)>>,
                          <<<<"t", "a", "g">>, Str(<<"v", "1", "4", ".", "2">>)>> >>)
  /\ "this" \notin DOMAIN last
  /\ last.threw = ZodError(<<Issue("custom", "registry",
                                   <<"D", "O", "C", "R", " ", "r", "e", "g", "i", "s", "t", "r", "y", " ", "t", "y", "p", "e", " ", "r", "e", "q", "u", "i", "r", "e", "s", " ", "n", "o", "n", "-", "e", "m", "p", "t", "y", " ", "r", "e", "g", "i", "s", "t", "r", "y", " ", "f", "i", "e", "l", "d">>)>>)

\* C18: for every constructed entity or aggregate e, passing e.toJSON()
\* back to the same constructor never fails, and toJSON() of the rebuilt
\* object equals e.toJSON().
C18_ToJSONRoundTrip ==
  last.op = "rebuild" =>
    /\ last.threw = NoError
    /\ last.res = last.json

\* the optional field `key` reads back (stored) and is projected as given
\* when the config holds it, and as its default when the config omits it
DefaultedField(config, json, key, stored, default) ==
  LET expected == IF HasKey(config.o, key) /\ Get(config.o, key) # Null
                    THEN Get(config.o, key) ELSE default
  IN /\ stored = expected
     /\ Get(json.o, key) = expected

\* C19: an optional field omitted at construction reads back, and appears
\* in toJSON(), as its declared default (EnvironmentVariable type GENERAL,
\* scope RUN_TIME; HealthCheck initialDelaySeconds 0, periodSeconds 10,
\* timeoutSeconds 1, successThreshold 1, failureThreshold 3; GitHubSource
\* sourceDir "/", dockerfilePath "Dockerfile", deployOnPush false;
\* VolumeMount size "1GB"); a field given a valid value is stored as given.
C19_DefaultsApplied ==
  (last.op = "new" /\ last.threw = NoError) =>
    LET c == last.config
        x == last.this
        j == last.json
    IN /\ last.cls = "EnvironmentVariable" =>
            /\ DefaultedField(c, j, <<"t", "y", "p", "e">>, x.type, Str(<<"G", "E", "N", "E", "R", "A", "L">>))
            /\ DefaultedField(c, j, <<"s", "c", "o", "p", "e">>, x.scope, Str(<<"R", "U", "N", "_", "T", "I", "M", "E">>))
       /\ last.cls = "HealthCheck" =>
            /\ DefaultedField(c, j, <<"i", "n", "i", "t", "i", "a", "l", "D", "e", "l", "a", "y", "S", "e", "c", "o", "n", "d", "s">>, x.initialDelaySeconds, Num(0))
            /\ DefaultedField(c, j, <<"p", "e", "r", "i", "o", "d", "S", "e", "c", "o", "n", "d", "s">>, x.periodSeconds, Num(10))
            /\ DefaultedField(c, j, <<"t", "i", "m", "e", "o", "u", "t", "S", "e", "c", "o", "n", "d", "s">>, x.timeoutSeconds, Num(1))
            /\ DefaultedField(c, j, <<"s", "u", "c", "c", "e", "s", "s", "T", "h", "r", "e", "s", "h", "o", "l", "d">>, x.successThreshold, Num(1))
            /\ DefaultedField(c, j, <<"f", "a", "i", "l", "u", "r", "e", "T", "h", "r", "e", "s", "h", "o", "l", "d">>, x.failureThreshold, Num(3))
       /\ last.cls = "GitHubSource" =>
            /\ DefaultedField(c, j, <<"s", "o", "u", "r", "c", "e", "D", "i", "r">>, x.sourceDir, Str(<<"/">>))
            /\ DefaultedField(c, j, <<"d", "o", "c", "k", "e", "r", "f", "i", "l", "e", "P", "a", "t", "h">>, x.dockerfilePath, Str(<<"D", "o", "c", "k", "e", "r", "f", "i", "l", "e">>))
            /\ DefaultedField(c, j, <<"d", "e", "p", "l", "o", "y", "O", "n", "P", "u", "s", "h">>, x.deployOnPush, Bool(FALSE))
       /\ last.cls = "VolumeMount" =>
            DefaultedField(c, j, <<"s", "i", "z", "e">>, x.size, Str(<<"1", "G", "B">>))

C19_Witness ==
  /\ last.op = "new"
  /\ last.cls = "HealthCheck"
  /\ last.config = Obj(<< <<<<"h", "t", "t", "p", "P", "a", "t", "h">>, Str(<<"/">>)>>, <<<<"p", "o", "r", "t">>, Num(3000)>>,
                          <<<<"p", "e", "r", "i", "o", "d", "S", "e", "c", "o", "n", "d", "s">>, Num(5)>> >>)
  /\ last.threw = NoError
  /\ last.this = [SampleHealthCheck EXCEPT !.periodSeconds = Num(5)]
  /\ last.json = HealthCheckToJSON([SampleHealthCheck EXCEPT !.periodSeconds = Num(5)])

\* the text toYAML returns, on the given path of the pipeline, for the
\* projection json of the aggregate
TextFor(json, path) ==
  LET outs == extractPulumiOutputs(json, <<>>)
      tree == IF path = "resolved"
                THEN objWithResolved(json, outs,
                                     [k \in 1..Len(outs) |-> Resolution(outs[k].value)])
                ELSE json
  IN dump(transformKeys(removeEmpty(tree)))

\* C20: the text one toYAML() call returns is fixed by the state of the
\* aggregate when the call was made: it is the text for the projection of
\* that moment, with the env list of that moment, whatever was done to the
\* aggregate while the call was suspended and whatever other toYAML() calls
\* were suspended at the same time.
C20_ToYAMLOfCallTime ==
  (last.op = "toYAML" /\ self.cls # "none") =>
    /\ Get(last.json.o, <<"e", "n", "v", "s">>) = EnvsToJSON(last.envs)
    /\ last.res = TextFor(last.json, last.path)

(***************************************************************************)
(* Frame of the aggregate's operations (checked under Spec).               *)
(***************************************************************************)
\* C21: the env list is the only part of an aggregate that changes, and it
\* changes only in an addEnv that returns or a removeEnv that answers true;
\* getEnv, listEnvs, toJSON, toYAML, an addEnv that fails and a removeEnv
\* that answers false leave it as it was, and no operation changes name,
\* instanceSizeSlug, instanceCount, ports, runCommand, healthCheck, volumes,
\* source or kind.
C21_OnlyEnvListChanges ==
  [][/\ self' = self
     /\ \A f \in {"internalPorts", "volumes"} \cap DOMAIN self :
          ArrayOf(self[f], heap') = ArrayOf(self[f], heap)
     /\ (heap'[self.envs] # heap[self.envs]) =>
           \/ last'.op = "addEnv" /\ last'.threw = NoError
           \/ last'.op = "removeEnv" /\ last'.res = TRUE]_vars

\* C22: constructing an aggregate with an initial env list in which two
\* entries share a key does not fail, and listEnvs() then returns all the
\* entries passed, duplicates included, in the order given.
C22_DuplicateInitialEnvsKept ==
  [][(last = NoCall /\ held.init # 0 /\ last'.op = "listEnvs") =>
       last'.res = heap[held.init]]_vars

C22_Witness ==
  /\ last.op = "listEnvs"
  /\ held.init # 0
  /\ last.res = heap[held.init]
  /\ Len(last.res) = 2
  /\ last.res[1] # last.res[2]
  /\ Envs[last.res[1]].key = Envs[last.res[2]].key

(***************************************************************************)
(* What a failing constructor reports (checked under SpecEntity).          *)
(***************************************************************************)
\* C23: validation is fail-fast: when a configuration violates two or more
\* rules, the failure reports exactly one violation, the first declared
\* one, and nothing about the later ones.
C23_FailFast ==
  (last.op = "new" /\ last.threw # NoError) => Len(last.threw.issues) = 1

\* the fields with a declared default: the key in the config, the name of
\* the field and the default
DefaultedFields(cls) ==
  CASE cls = "EnvironmentVariable" ->
         {<<<<"t", "y", "p", "e">>, "type", Str(<<"G", "E", "N", "E", "R", "A", "L">>)>>, <<<<"s", "c", "o", "p", "e">>, "scope", Str(<<"R", "U", "N", "_", "T", "I", "M", "E">>)>>}
    [] cls = "HealthCheck" ->
         {<<<<"i", "n", "i", "t", "i", "a", "l", "D", "e", "l", "a", "y", "S", "e", "c", "o", "n", "d", "s">>, "initialDelaySeconds", Num(0)>>,
          <<<<"p", "e", "r", "i", "o", "d", "S", "e", "c", "o", "n", "d", "s">>, "periodSeconds", Num(10)>>,
          <<<<"t", "i", "m", "e", "o", "u", "t", "S", "e", "c", "o", "n", "d", "s">>, "timeoutSeconds", Num(1)>>,
          <<<<"s", "u", "c", "c", "e", "s", "s", "T", "h", "r", "e", "s", "h", "o", "l", "d">>, "successThreshold", Num(1)>>,
          <<<<"f", "a", "i", "l", "u", "r", "e", "T", "h", "r", "e", "s", "h", "o", "l", "d">>, "failureThreshold", Num(3)>>}
    [] cls = "GitHubSource" ->
         {<<<<"s", "o", "u", "r", "c", "e", "D", "i", "r">>, "sourceDir", Str(<<"/">>)>>,
          <<<<"d", "o", "c", "k", "e", "r", "f", "i", "l", "e", "P", "a", "t", "h">>, "dockerfilePath", Str(<<"D", "o", "c", "k", "e", "r", "f", "i", "l", "e">>)>>,
          <<<<"d", "e", "p", "l", "o", "y", "O", "n", "P", "u", "s", "h">>, "deployOnPush", Bool(FALSE)>>}
    [] cls = "VolumeMount" -> {<<<<"s", "i", "z", "e">>, "size", Str(<<"1", "G", "B">>)>>}
    [] OTHER -> {}

\* C24: a default is applied only when the field is omitted (undefined);
\* an explicit null is never treated as omitted: construction with null for
\* a field that has a default never yields an object holding the default.
C24_NullIsNotOmitted ==
  (last.op = "new" /\ last.threw = NoError) =>
    \A f \in DefaultedFields(last.cls) :
      (HasKey(last.config.o, f[1]) /\ Get(last.config.o, f[1]) = Null) =>
        last.this[f[2]] # f[3]

\* the numeric fields of each class: the key in the config, the name in a
\* field path, and the least and greatest value accepted (0 for no greatest)
NumericFields(cls) ==
  CASE cls = "HealthCheck" ->
         {<<<<"p", "o", "r", "t">>, "port", 1, 65535>>,
          <<<<"i", "n", "i", "t", "i", "a", "l", "D", "e", "l", "a", "y", "S", "e", "c", "o", "n", "d", "s">>, "initialDelaySeconds", 0, 0>>,
          <<<<"p", "e", "r", "i", "o", "d", "S", "e", "c", "o", "n", "d", "s">>, "periodSeconds", 1, 0>>,
          <<<<"t", "i", "m", "e", "o", "u", "t", "S", "e", "c", "o", "n", "d", "s">>, "timeoutSeconds", 1, 0>>,
          <<<<"s", "u", "c", "c", "e", "s", "s", "T", "h", "r", "e", "s", "h", "o", "l", "d">>, "successThreshold", 1, 0>>,
          <<<<"f", "a", "i", "l", "u", "r", "e", "T", "h", "r", "e", "s", "h", "o", "l", "d">>, "failureThreshold", 1, 0>>}
    [] cls = "Service" ->
         {<<<<"h", "t", "t", "p", "P", "o", "r", "t">>, "httpPort", 1, 65535>>, <<<<"i", "n", "s", "t", "a", "n", "c", "e", "C", "o", "u", "n", "t">>, "instanceCount", 1, 0>>}
    [] cls \in {"Job", "Worker"} -> {<<<<"i", "n", "s", "t", "a", "n", "c", "e", "C", "o", "u", "n", "t">>, "instanceCount", 1, 0>>}
    [] OTHER -> {}

\* an integer of least..greatest
InRange(v, least, greatest) ==
  /\ "half" \notin DOMAIN v
  /\ v.n >= least
  /\ greatest # 0 => v.n <= greatest

\* the numbers given for field f, each with the path of its issues: the
\* value of a numeric field, the elements of internalPorts
NumbersGiven(cls, config) ==
  {<<Get(config.o, f[1]), <<f[2]>>, f[3], f[4]>> :
     f \in {g \in NumericFields(cls) : Get(config.o, g[1]).t = "number"}}
  \cup (IF cls \in {"Service", "Worker"} /\ Get(config.o, <<"i", "n", "t", "e", "r", "n", "a", "l", "P", "o", "r", "t", "s">>).t = "array"
          THEN LET a == Get(config.o, <<"i", "n", "t", "e", "r", "n", "a", "l", "P", "o", "r", "t", "s">>).a
               IN {<<a[i], <<"internalPorts", i - 1>>, 1, 65535>> :
                     i \in {k \in 1..Len(a) : a[k].t = "number"}}
          ELSE {})

\* C25: port, httpPort and each element of internalPorts is accepted if and
\* only if it is an integer of 1..65535 (0, -1 and 65536 are rejected);
\* instanceCount, periodSeconds, timeoutSeconds, successThreshold and
\* failureThreshold if and only if an integer of at least 1;
\* initialDelaySeconds if and only if an integer of at least 0; a number
\* with a fractional part (1.5) is rejected for all of them; a rejected
\* value never yields an object.
C25_NumericRanges ==
  last.op = "new" =>
    \A g \in NumbersGiven(last.cls, last.config) :
      IF InRange(g[1], g[3], g[4])
        THEN last.threw # NoError =>
               \A i \in 1..Len(last.threw.issues) : last.threw.issues[i].path # g[2]
        ELSE /\ last.threw # NoError
             /\ "this" \notin DOMAIN last
             /\ (last.cls = "HealthCheck" \/ last.threw.issues[1].path # <<"name">>) =>
                   \E i \in 1..Len(last.threw.issues) : last.threw.issues[i].path = g[2]

C25_Witness ==
  /\ last.op = "new"
  /\ last.cls = "HealthCheck"
  /\ Get(last.config.o, <<"p", "o", "r", "t">>) = Num(65535)
  /\ Get(last.config.o, <<"i", "n", "i", "t", "i", "a", "l", "D", "e", "l", "a", "y", "S", "e", "c", "o", "n", "d", "s">>) = Num(0)
  /\ Get(last.config.o, <<"p", "e", "r", "i", "o", "d", "S", "e", "c", "o", "n", "d", "s">>) = NumAndHalf(1)
  /\ Get(last.config.o, <<"s", "u", "c", "c", "e", "s", "s", "T", "h", "r", "e", "s", "h", "o", "l", "d">>) = Undefined
  /\ Len(last.threw.issues) = 1
  /\ last.threw.issues[1].path = <<"periodSeconds">>

(***************************************************************************)
(* The two entry points of the serializer (checked under SpecPipeline).    *)
(***************************************************************************)
\* C26: for every tree that holds no deferred value, toYAML and toYAMLSync
\* produce the same text, and toYAML neither loads nor calls the
\* resolution backend.
C26_SyncAsyncAgree ==
  ~HoldsDeferred(input) =>
    /\ pulumi = "unknown"
    /\ calls = <<>>
    /\ last.op = "toYAML" =>
         /\ last.path = "direct"
         /\ toYAMLSync(last.json).threw = NoError
         /\ last.res = toYAMLSync(last.json).res

C26_Witness ==
  /\ last.op = "toYAML"
  /\ last.path = "direct"
  /\ pulumi = "unknown"
  /\ last.json = Obj(<< <<<<"d", "b", "U", "r", "l">>, Str(<<"3", "0", "0", "0">>)>>, <<<<"a", "p", "i", "K", "e", "y">>, SecretFlagOnly>> >>)
  /\ last.res = dump(Obj(<< <<<<"d", "b", "_", "u", "r", "l">>, Str(<<"3", "0", "0", "0">>)>>,
                            <<<<"a", "p", "i", "_", "k", "e", "y">>, Obj(<< <<<<"i", "s", "_", "s", "e", "c", "r", "e", "t">>, Bool(TRUE)>> >>)>> >>))

(***************************************************************************)
(* Uniqueness of keys from a list without duplicates (checked under Spec). *)
(***************************************************************************)
\* the list passed to the constructor, which the caller of Spec leaves alone
InitialList == IF held.init = 0 THEN <<>> ELSE heap[held.init]

NoDuplicateKeys(list) ==
  \A i, j \in 1..Len(list) : i # j => Envs[list[i]].key # Envs[list[j]].key

\* C27: if the initial env list has no two entries of the same key (or
\* there is none), then after any sequence of addEnv, removeEnv, getEnv,
\* listEnvs, toJSON and toYAML the env list has no two entries of the same
\* key, and getEnv(k) returns the one entry of key k, or undefined when
\* there is none.
C27_KeysStayUnique ==
  NoDuplicateKeys(InitialList) =>
    /\ NoDuplicateKeys(EnvList)
    /\ last.op = "getEnv" =>
         IF last.arg \in KeysOf(EnvList)
           THEN /\ last.res # 0
                /\ Envs[last.res].key = last.arg
                /\ Cardinality({i \in 1..Len(EnvList) : EnvList[i] = last.res}) = 1
           ELSE last.res = 0

C27_Witness ==
  /\ InitialList = <<1, 3>>
  /\ EnvList = <<3, 2>>
  /\ last.op = "getEnv"
  /\ last.arg = <<"P", "O", "R", "T">>
  /\ last.res = 2

(***************************************************************************)
(* The array passed to the constructor (checked under SpecAlias).          *)
(***************************************************************************)
\* C28: the constructor copies the initial env list: when the caller later
\* appends to, removes from or reorders the array it passed, listEnvs,
\* getEnv and toJSON of the aggregate stay as they were, and addEnv and
\* removeEnv leave the caller's array as it was.
C28_ConstructorCopiesEnvs ==
  [][/\ (last'.op = "mutate" /\ last'.ref = held.init) =>
          /\ listEnvs(heap', self.envs).heap[listEnvs(heap', self.envs).res]
               = listEnvs(heap, self.envs).heap[listEnvs(heap, self.envs).res]
          /\ toJSON(self, heap') = toJSON(self, heap)
          /\ \A key \in KeyArgs :
               getEnv(heap', self.envs, key) = getEnv(heap, self.envs, key)
     /\ (last'.op \in {"addEnv", "removeEnv"} /\ held.init # 0) =>
          heap'[held.init] = heap[held.init]]_vars

C28_Witness ==
  /\ last.op = "mutate"
  /\ last.ref = held.init
  /\ Len(heap[held.init]) = 2
  /\ EnvList = <<heap[held.init][2], heap[held.init][1]>>
  /\ heap[held.init] # EnvList

(***************************************************************************)
(* removeEmpty applied to its own result (checked under SpecTree).         *)
(***************************************************************************)
RECURSIVE NothingEmpty(_)
\* no null, undefined, empty array or empty object at any depth of v
NothingEmpty(v) ==
  /\ v.t \notin {"null", "undefined"}
  /\ v.t \in {"array", "object"} =>
       /\ Len(Children(v)) > 0
       /\ \A i \in 1..Len(Children(v)) : NothingEmpty(Children(v)[i])

\* C29: removeEmpty is idempotent and complete: removeEmpty(removeEmpty(t))
\* = removeEmpty(t); its result is undefined or a tree with no null,
\* undefined, empty array or empty object at any depth; a root object whose
\* values all prune yields undefined.
C29_RemoveEmptyIdempotent ==
  last.op = "removeEmpty" =>
    /\ removeEmpty(last.res) = last.res
    /\ last.res = Undefined \/ NothingEmpty(last.res)
    /\ (/\ last.arg.t = "object"
        /\ \A i \in 1..Len(last.arg.o) : ~Survives(last.arg.o[i][2])) =>
         last.res = Undefined

C29_Witness ==
  /\ last.op = "removeEmpty"
  /\ last.arg = OrderExample
  /\ last.res = Arr(<<Num(0), Str(<<>>), Arr(<<Num(1)>>), Bool(FALSE)>>)
  /\ removeEmpty(last.res) = last.res

(***************************************************************************)
(* Completion of toYAML (checked under SpecPipelineSettles).               *)
(***************************************************************************)
\* C30: toYAML never propagates a failure of resolution: when the backend
\* was loaded and the batch rejects, toYAML completes with the text rendered
\* from the unresolved tree, as it does when the backend is unavailable; a
\* call stays incomplete only while the import or the batch has not settled:
\* when they settle, a suspended call is followed by a completed one.
C30_ToYAMLCompletes ==
  /\ []((last.op = "toYAML" /\ last.path = "catch") =>
          /\ "threw" \notin DOMAIN last
          /\ "res" \in DOMAIN last
          /\ last.res = dump(transformKeys(removeEmpty(last.json))))
  /\ [](\A i \in 1..Len(calls) :
          \/ calls[i].pc = "import"
          \/ calls[i].pc = "all" /\ pulumi = "installed")
  /\ (calls # <<>>) ~> (last.op = "toYAML" /\ "res" \in DOMAIN last)

C30_Witness ==
  /\ last.op = "toYAML"
  /\ last.path = "catch"
  /\ pulumi = "installed"
  /\ calls = <<>>
  /\ last.json = Obj(<< <<<<"d", "b", "U", "r", "l">>, MockOutput(2, <<"s", "e", "c", "r", "e", "t">>)>>, <<<<"a", "p", "i", "K", "e", "y">>, Null>> >>)
  /\ last.res = dump(transformKeys(removeEmpty(last.json)))

====
